---- MODULE Spec2Model ----
(***************************************************************************)
(* Model of the per-device connection manager of the Otto Wilde G32        *)
(* integration (custom_components/otto_wilde_g32/api.py): the asyncio      *)
(* Session Loop task (_tcp_listener_loop), the retry/backoff policy, and    *)
(* the manager's control methods (enable_grill, connect_if_needed,          *)
(* _start_listener_for_grill, _stop_listener_for_grill,                     *)
(* async_stop_listeners).                                                   *)
(*                                                                         *)
(* The event loop is single threaded: a coroutine runs without interleaving *)
(* from one await that suspends to the next.  Every action below is one     *)
(* such run.  The model follows one grill (all maps of the client are keyed *)
(* by serial number and no code path reads another serial's entry).         *)
(***************************************************************************)
EXTENDS Integers, FiniteSets, Sequences, TLC

\* ---- program constants (const.py) ----
HEARTBEAT_TIMEOUT_SECONDS == 90
RAPID_RETRY_ATTEMPTS == 5
RAPID_RETRY_DELAY_SECONDS == 2
INITIAL_RETRY_DELAY_SECONDS == 30
MAX_RETRY_DELAY_SECONDS == 300
OVERALL_TIMEOUT_MINUTES == 30

\* ---- bounds of the model ----
\* external control calls (enable, connect_if_needed) explored per behaviour
MaxCalls == 2
\* connection attempts explored per behaviour under Spec
MaxAttempts == 2
\* connection attempts explored per behaviour under SpecRetry
MaxRetryAttempts == 14
\* telemetry dispatches counted per behaviour
MaxDispatch == 1
\* forward steps of the wall clock (host suspended, clock stepped) explored per behaviour
MaxJumps == 1
\* sync_counter calls explored per behaviour
MaxReseeds == 2
\* largest restored value handed to sync_counter
MaxRestored == 2
\* listeners that subscribe in one behaviour
MaxListeners == 3
\* dispatches made per registry and serial number
MaxEvents == 1

NumTasks == MaxCalls + 2
Tasks == 1..NumTasks
NoTask == 0
\* datetime absent / None
NoTime == -1

Terminal == {"done", "cancelled", "failed"}
Live == {"start", "connecting", "handshake", "streaming", "closing", "closing_exc",
         "rapid_sleep", "backoff_sleep", "self_stop"}

VARIABLES
    phase,         \* setup progress of the config entry: new, discovered, configured, running, stopped
    enabled,       \* _enabled_grills.get(sn, False)
    conn,          \* _tcp_connections.get(sn): the registered task, or NoTask
    counters,      \* _counters, the per-device maps read at sn
    bstart,        \* _backoff_start_times.get(sn)
    next_attempt,  \* _diag_next_connection_attempt.get(sn)
    tracker_entity,\* _device_trackers.get(sn) is set
    tracker_state, \* hass.states.get(entity_id): "home", "not_home" or "missing"
    now,           \* datetime.now(timezone.utc), in seconds
    nextTask,      \* number of tasks created so far by asyncio.create_task
    pc,            \* per task: where the coroutine is suspended, or how it ended
    rapid,         \* per task: the local rapid_retry_count
    writer,        \* per task: the socket of the local writer: none, open, closing, closed
    succ,          \* per task: the local connection_succeeded
    brk,           \* per task: the CancelledError handler's break is pending behind the finally block
    must_cancel,   \* per task: Task.cancel() was called and CancelledError is not yet delivered
    wake,          \* per task: deadline of the pending timer (sleep or wait_for)
    awaiting,      \* per task: the task awaited inside _stop_listener_for_grill called by the loop
    ext_wait,      \* tasks awaited by enable_grill(sn, False) calls made from outside the loop
    shut_wait,     \* the task awaited by async_stop_listeners, or NoTask
    state_seen,    \* is_grill_enabled as read by the state listeners at the last _dispatch_state_update
    dispatched,    \* number of _dispatch_data calls (telemetry dispatches)
    calls,         \* number of external control calls made
    pending,       \* connect_if_needed tasks created by hass.async_create_task and not yet run
    ev,            \* the step just taken: [op, t, d]
    nfail,         \* failures counted since the last successful handshake or enable call
    delays,        \* the backoff delays scheduled in the current backoff epoch, in order
    streak,        \* enable(true) calls completed since the last disable, capped at 2
    quiet,         \* an enable(false) that cancelled a loop in a socket read has returned, no enable(true) since
    counted,       \* login and device-list calls counted since construction
    grills,        \* self.grills: the serial numbers of the device list
    entries,       \* the serial numbers that have an enabled flag and per-device counters
    synced,        \* _synced_global_counters
    other,         \* _counters of the per-device maps read at a second serial number
    seed,          \* per global counter: the restored value of its first sync_counter call, or NoSeed
    seeded,        \* sum of the restored values added to tcp_connection_attempts of the device
    reseeds,       \* number of sync_counter calls made
    field,         \* a 2-byte temperature field handed to the decoder
    decoded,       \* the result of _parse_temp_value for field, or Undecoded before the call
    stream,        \* bytes the peer has sent and reader.read has not yet returned
    buffer,        \* the local buffer of the inner loop of _tcp_listener_loop
    received,      \* the telemetry records a subscriber has received, in order
    parts,         \* what the peer sends on the connection, piece by piece: records, other bytes
    callbacks,     \* per listener kind and serial number: the list of callbacks registered
    handle,        \* per listener: NoHandle, or its subscription and whether its handle was called
    ndisp,         \* per listener kind and serial number: the dispatches made so far
    heard          \* per listener: the dispatches it has received

mgr == <<phase, enabled, conn, counters, bstart, next_attempt, state_seen>>
dsc == <<counted, grills, entries>>
env == <<tracker_entity, tracker_state, now, calls, pending, dsc>>
tsk == <<nextTask, pc, rapid, writer, succ, brk, must_cancel, wake, awaiting>>
wts == <<ext_wait, shut_wait>>
hst == <<dispatched, ev, nfail, delays, streak, quiet>>
rsd == <<synced, other, seed, seeded, reseeds>>
cdc == <<field, decoded, stream, buffer, received, parts>>
lsn == <<callbacks, handle, ndisp, heard>>
aux == <<rsd, cdc, lsn>>
vars == <<mgr, env, tsk, wts, hst, aux>>

\* the counters kept once per client and those kept per serial number
GlobalCounters == {"api_login_calls", "api_grills_calls"}
DeviceCounters == {"tcp_connection_attempts", "tcp_reconnect_counter"}
\* no sync_counter call seen yet
NoSeed == -1
\* _parse_temp_value not yet called
Undecoded == -2
\* _parse_temp_value returned None
NoReading == -1
\* the unregister closure of a listener that has not subscribed
NoHandle == [none |-> TRUE]
\* the three registries: _update_callbacks, _state_update_callbacks, _diagnostics_callbacks
Kinds == {"update", "state", "diagnostics"}
\* the serial numbers listeners subscribe to: the modelled device and another one
Serials == {1, 2}
Listeners == 1..MaxListeners
\* the serial number of the modelled device, and the device list of the account
Device == 1
AccountGrills == Serials

Event(op, t, d) == [op |-> op, t |-> t, d |-> d]

Max(a, b) == IF a >= b THEN a ELSE b
Min(a, b) == IF a <= b THEN a ELSE b

RECURSIVE Pow2(_)
Pow2(n) == IF n <= 0 THEN 1 ELSE 2 * Pow2(n - 1)

\* mutant: a device whose gating signal does not permit counts as not enabled
IsGrillEnabledAndHome == enabled /\ (~tracker_entity \/ tracker_state = "home")

\* is_grill_enabled
IsGrillEnabled == enabled

\* mutant: a tracker whose state is unknown to hass counts as home
IsDeviceTrackerHomeUnknownIsHome ==
    IF ~tracker_entity THEN TRUE
    ELSE tracker_state # "not_home"

\* _is_device_tracker_home: no tracker assigned permits; otherwise the state must be "home"
IsDeviceTrackerHome ==
    IF ~tracker_entity THEN TRUE
    ELSE tracker_state = "home"

\* Task.done()
TaskDone(t) == pc[t] \in Terminal

LiveTasks == {t \in Tasks : pc[t] \in Live}

\* the client after construction (__init__), no listener started
InitClient ==
    /\ phase = "new"
    /\ enabled = FALSE
    /\ conn = NoTask
    /\ counters = [api_login_calls |-> 0, api_grills_calls |-> 0,
                   tcp_connection_attempts |-> 0, tcp_reconnect_counter |-> 0]
    /\ bstart = NoTime
    /\ next_attempt = NoTime
    /\ tracker_entity = FALSE
    /\ tracker_state = "missing"
    /\ now = 0
    /\ nextTask = 0
    /\ pc = [t \in Tasks |-> "none"]
    /\ rapid = [t \in Tasks |-> 0]
    /\ writer = [t \in Tasks |-> "none"]
    /\ succ = [t \in Tasks |-> FALSE]
    /\ brk = [t \in Tasks |-> FALSE]
    /\ must_cancel = [t \in Tasks |-> FALSE]
    /\ wake = [t \in Tasks |-> NoTime]
    /\ awaiting = [t \in Tasks |-> NoTask]
    /\ ext_wait = {}
    /\ shut_wait = NoTask
    /\ state_seen = FALSE
    /\ dispatched = 0
    /\ calls = 0
    /\ pending = 0
    /\ ev = Event("init", NoTask, 0)
    /\ nfail = 0
    /\ delays = <<>>
    /\ streak = 0
    /\ quiet = FALSE
    /\ counted = [api_login_calls |-> 0, api_grills_calls |-> 0]
    /\ grills = {}
    /\ entries = {}
    /\ synced = {}
    /\ other = [tcp_connection_attempts |-> 0, tcp_reconnect_counter |-> 0]
    /\ seed = [c \in GlobalCounters |-> NoSeed]
    /\ seeded = 0
    /\ reseeds = 0
    /\ callbacks = [k \in Kinds |-> [sn \in Serials |-> <<>>]]
    /\ handle = [l \in Listeners |-> NoHandle]
    /\ ndisp = [k \in Kinds |-> [sn \in Serials |-> 0]]
    /\ heard = [l \in Listeners |-> 0]

\* nothing received and nothing decoded
Init ==
    /\ InitClient
    /\ field = <<0, 0>>
    /\ decoded = Undecoded
    /\ stream = <<>>
    /\ buffer = <<>>
    /\ received = <<>>
    /\ parts = <<>>

\* ---------------------------------------------------------------------------
\* The listener registries
\* ---------------------------------------------------------------------------

\* mutant: the newest callback of the list is removed (list.pop())
RemoveLast(cbs, cb) == SubSeq(cbs, 1, Len(cbs) - 1)

\* lines 305, 310, 318: list.remove(cb): the first occurrence of cb leaves the list
Remove(cbs, cb) ==
    LET at == CHOOSE i \in 1..Len(cbs) : cbs[i] = cb /\ \A j \in 1..(i - 1) : cbs[j] # cb
    IN SubSeq(cbs, 1, at - 1) \o SubSeq(cbs, at + 1, Len(cbs))

\* register_update_callback, register_state_callback, register_diagnostics_callback: the
\* callback of listener l is appended to the list of serial number sn; the caller keeps the
\* unregister closure returned
Register(k, sn, l) ==
    /\ handle[l] = NoHandle
    /\ callbacks' = [callbacks EXCEPT ![k][sn] = Append(@, l)]
    /\ handle' = [handle EXCEPT ![l] = [k |-> k, sn |-> sn, base |-> ndisp[k][sn],
                                         called |-> FALSE, stop |-> 0]]
    /\ UNCHANGED <<mgr, env, tsk, wts, hst, rsd, cdc, ndisp, heard>>

\* the unregister closure of listener l is called (once, outside a dispatch)
Unregister(l) ==
    /\ handle[l] # NoHandle
    /\ ~handle[l].called
    /\ LET k == handle[l].k
           sn == handle[l].sn
       IN /\ callbacks' = [callbacks EXCEPT ![k][sn] = Remove(@, l)]
          /\ handle' = [handle EXCEPT ![l].called = TRUE, ![l].stop = ndisp[k][sn]]
    /\ UNCHANGED <<mgr, env, tsk, wts, hst, rsd, cdc, ndisp, heard>>

\* the number of times cb occurs in the list cbs
Occurrences(cbs, cb) == Cardinality({i \in 1..Len(cbs) : cbs[i] = cb})

\* _dispatch_data, _dispatch_state_update, _dispatch_diagnostics_update: every callback in
\* the list of the serial number is called, in list order
Dispatch(k, sn) ==
    /\ ndisp[k][sn] < MaxEvents
    /\ ndisp' = [ndisp EXCEPT ![k][sn] = @ + 1]
    /\ heard' = [l \in Listeners |-> heard[l] + Occurrences(callbacks[k][sn], l)]
    /\ UNCHANGED <<mgr, env, tsk, wts, hst, rsd, cdc, callbacks, handle>>

\* ---------------------------------------------------------------------------
\* The binary record: framing and decoding
\* ---------------------------------------------------------------------------

\* PACKET_HEADER = b'\xa3\x3a'
PACKET_HEADER == <<163, 58>>
PACKET_SIZE == 51
Bytes == 0..255

\* bytes.hex(): two hex digits per byte, high digit first; a digit is kept as its value 0..15
Hex(data) ==
    [i \in 1..(2 * Len(data)) |->
        IF i % 2 = 1 THEN data[(i + 1) \div 2] \div 16 ELSE data[i \div 2] % 16]

\* the slice h[a:b] of Python, clamped to the length of h
Slice(h, a, b) == SubSeq(h, a + 1, Min(b, Len(h)))

\* mutant: the digits are read in base 10
RECURSIVE HexIntDecimal(_)
HexIntDecimal(h) ==
    IF Len(h) = 0 THEN 0 ELSE 10 * HexIntDecimal(SubSeq(h, 1, Len(h) - 1)) + h[Len(h)]

\* int(h, 16) of a non-empty string of hex digits
RECURSIVE HexInt(_)
HexInt(h) ==
    IF Len(h) = 0 THEN 0 ELSE 16 * HexInt(SubSeq(h, 1, Len(h) - 1)) + h[Len(h)]

\* lines 273-279: "9600", "ffff", "0000", "ffef", "feff"
InvalidPatterns ==
    {<<9, 6, 0, 0>>, <<15, 15, 15, 15>>, <<0, 0, 0, 0>>, <<15, 15, 14, 15>>, <<15, 14, 15, 15>>}

\* mutant: the upper limit of the comment of line 290 (500 degrees) instead of 600
TempOutOfRange500(tenths) == tenths < -500 \/ tenths > 5000

\* line 293: calculated_temp < -50 or calculated_temp > 600, on tenths of a degree
TempOutOfRange(tenths) == tenths < -500 \/ tenths > 6000

\* _parse_temp_value: None, or the temperature (temp_whole * 10) + (temp_decimal / 10.0),
\* kept in tenths of a degree: 100 * temp_whole + temp_decimal
ParseTempValue(h) ==
    IF Len(h) # 4 THEN NoReading
    ELSE IF h \in InvalidPatterns THEN NoReading
    ELSE LET temp_whole == HexInt(SubSeq(h, 1, 2))
             temp_decimal == HexInt(SubSeq(h, 3, 4))
             tenths == 100 * temp_whole + temp_decimal
         IN IF TempOutOfRange(tenths) THEN NoReading ELSE tenths

\* mutant: a weight of exactly 2200 g counts as low
GasLowInclusive(gas_weight) == gas_weight <= 2200

\* line 260: "gas_low": int(hex_data[44:48], 16) < 2200
GasLow(gas_weight) == gas_weight < 2200

\* _parse_binary_data returned None
NoRecord == [none |-> TRUE]

\* mutant: a temperature field without reading rejects the whole record
ParseBinaryDataAllOrNothing(data) ==
    LET h == Hex(data)
        temps == [i \in 0..7 |-> ParseTempValue(Slice(h, 12 + 4 * i, 16 + 4 * i))]
    IN IF \E i \in 0..7 : temps[i] = NoReading THEN NoRecord
       ELSE [zone_1 |-> temps[0], zone_2 |-> temps[1], zone_3 |-> temps[2],
             zone_4 |-> temps[3], probe_1 |-> temps[4], probe_2 |-> temps[5],
             probe_3 |-> temps[6], probe_4 |-> temps[7],
             gas_weight |-> HexInt(Slice(h, 44, 48)),
             lid_open |-> Slice(h, 48, 50) = <<0, 1>>,
             light_on |-> Slice(h, 50, 52) = <<0, 1>>,
             gas_level |-> HexInt(Slice(h, 62, 64)),
             gas_low |-> HexInt(Slice(h, 44, 48)) < 2200]

\* _parse_binary_data: the dict of one record (without the hex dump), or None when int()
\* raises ValueError on an empty slice
ParseBinaryData(data) ==
    LET h == Hex(data)
    IN IF Len(Slice(h, 44, 48)) = 0 \/ Len(Slice(h, 62, 64)) = 0 THEN NoRecord
       ELSE [zone_1 |-> ParseTempValue(Slice(h, 12, 16)),
             zone_2 |-> ParseTempValue(Slice(h, 16, 20)),
             zone_3 |-> ParseTempValue(Slice(h, 20, 24)),
             zone_4 |-> ParseTempValue(Slice(h, 24, 28)),
             probe_1 |-> ParseTempValue(Slice(h, 28, 32)),
             probe_2 |-> ParseTempValue(Slice(h, 32, 36)),
             probe_3 |-> ParseTempValue(Slice(h, 36, 40)),
             probe_4 |-> ParseTempValue(Slice(h, 40, 44)),
             gas_weight |-> HexInt(Slice(h, 44, 48)),
             lid_open |-> Slice(h, 48, 50) = <<0, 1>>,
             light_on |-> Slice(h, 50, 52) = <<0, 1>>,
             gas_level |-> HexInt(Slice(h, 62, 64)),
             gas_low |-> GasLow(HexInt(Slice(h, 44, 48)))]

\* buffer.find(PACKET_HEADER): the 0-based index of the first header, or -1
Find(buf) ==
    LET hits == {i \in 0..(Len(buf) - 2) :
                    buf[i + 1] = PACKET_HEADER[1] /\ buf[i + 2] = PACKET_HEADER[2]}
    IN IF hits = {} THEN -1 ELSE CHOOSE i \in hits : \A j \in hits : i <= j

\* mutant: the newest record is handed over ahead of the earlier ones
DeliverFirst(out, parsed) == <<parsed>> \o out

\* line 189: `if parsed_data := ...: self._dispatch_data(...)`: a decoded record is dispatched
\* right away, so after those dispatched before it; a rejected one is dropped
Deliver(out, parsed) == IF parsed = NoRecord THEN out ELSE Append(out, parsed)

\* mutant: the bytes before the header are not counted
RestFromSize(buf, start_index) == SubSeq(buf, PACKET_SIZE + 1, Len(buf))

\* line 188: buffer = buffer[start_index + PACKET_SIZE:]
Rest(buf, start_index) == SubSeq(buf, start_index + PACKET_SIZE + 1, Len(buf))

\* lines 185-190: the inner loop run on buf until it needs another read: the records framed
\* and decoded on the way (those _parse_binary_data rejects are dropped) and the buffer left
RECURSIVE Frames(_, _)
Frames(buf, out) ==
    LET start_index == Find(buf)
    IN IF start_index # -1 /\ Len(buf) >= start_index + PACKET_SIZE
       THEN LET packet == SubSeq(buf, start_index + 1, start_index + PACKET_SIZE)
                rest == Rest(buf, start_index)
                parsed == ParseBinaryData(packet)
            IN Frames(rest, Deliver(out, parsed))
       ELSE [buffer |-> buf, out |-> out]

\* one record as the grill sends it: the header, zone 1 at bytes 6 and 7, the rest zero
RecordOf(z) ==
    [i \in 1..PACKET_SIZE |->
        IF i <= 2 THEN PACKET_HEADER[i]
        ELSE IF i = 7 THEN z[1]
        ELSE IF i = 8 THEN z[2]
        ELSE 0]

\* one record whose gas weight field (bytes 22 and 23) is g, the rest zero
GasRecordOf(g) ==
    [i \in 1..PACKET_SIZE |->
        IF i <= 2 THEN PACKET_HEADER[i]
        ELSE IF i = 23 THEN g[1]
        ELSE IF i = 24 THEN g[2]
        ELSE 0]

\* line 191: reader.read(1024) returns at most this many bytes
READ_SIZE == 1024

\* the bytes of one piece of a stream: a whole record with zone-1 field b, the first bytes of
\* such a record (the connection ends inside it), or bytes b that hold no header
PartLen == 10
BytesOf(part) ==
    CASE part.k = "rec" -> RecordOf(part.b)
      [] part.k = "part" -> SubSeq(RecordOf(part.b), 1, PartLen)
      [] OTHER -> part.b

RECURSIVE Flatten(_)
Flatten(ps) == IF ps = <<>> THEN <<>> ELSE BytesOf(Head(ps)) \o Flatten(Tail(ps))

Rec(z) == [k |-> "rec", b |-> z]
Part(z) == [k |-> "part", b |-> z]
Junk(b) == [k |-> "junk", b |-> b]

\* the streams explored: records back to back, the same record twice, bytes before and
\* between records (among them a lone first header byte), a record cut short by the end of
\* the stream, and bytes with no header at all
SampleStreams ==
    { <<Rec(<<1, 64>>)>>,
      <<Rec(<<0, 0>>)>>,
      <<Rec(<<1, 64>>), Rec(<<60, 0>>)>>,
      <<Rec(<<60, 0>>), Rec(<<1, 64>>)>>,
      <<Rec(<<1, 64>>), Rec(<<1, 64>>)>>,
      <<Junk(<<7, 163>>), Rec(<<1, 64>>), Junk(<<58, 9, 163>>), Rec(<<60, 0>>)>>,
      <<Rec(<<60, 0>>), Part(<<1, 64>>)>>,
      <<Junk(<<58, 163, 7>>)>> }

\* one record with a reading in every field and p in the probe-1 field (bytes 14 and 15):
\* zones 16.4, 23.2, 32.0, 43.0; probes 2 to 4 at 7.0, 8.0, 9.0; gas weight 2199; lid open;
\* light on; gas level 55
ProbeRecordOf(p) ==
    LET fixed == [i \in 1..PACKET_SIZE |-> 0]
        set == (7 :> 1) @@ (8 :> 64) @@ (9 :> 2) @@ (10 :> 32) @@ (11 :> 3) @@ (12 :> 20)
               @@ (13 :> 4) @@ (14 :> 30) @@ (15 :> p[1]) @@ (16 :> p[2]) @@ (17 :> 0)
               @@ (18 :> 70) @@ (19 :> 0) @@ (20 :> 80) @@ (21 :> 0) @@ (22 :> 90)
               @@ (23 :> 8) @@ (24 :> 151) @@ (25 :> 1) @@ (26 :> 1) @@ (32 :> 55)
               @@ (1 :> PACKET_HEADER[1]) @@ (2 :> PACKET_HEADER[2])
    IN [i \in 1..PACKET_SIZE |-> IF i \in DOMAIN set THEN set[i] ELSE fixed[i]]

\* the zone-1 fields of the streams explored
SampleFields == {<<1, 64>>, <<0, 0>>, <<60, 0>>, <<60, 1>>, <<150, 0>>}

\* a direct call of _parse_temp_value on the hex form of the field
DecodeField ==
    /\ decoded = Undecoded
    /\ decoded' = ParseTempValue(Hex(field))
    /\ UNCHANGED <<mgr, env, tsk, wts, hst, rsd, lsn, field, stream, buffer, received, parts>>

\* a direct call of _parse_binary_data on one framed record whose gas weight field is `field`
DecodeRecord ==
    /\ received = <<>>
    /\ LET parsed == ParseBinaryData(GasRecordOf(field))
       IN /\ parsed # NoRecord
          /\ received' = <<parsed>>
    /\ UNCHANGED <<mgr, env, tsk, wts, hst, rsd, lsn, field, decoded, stream, buffer, parts>>

\* a direct call of _parse_binary_data on one framed record whose probe-1 field is `field`
\* and whose other fields all hold readings
DecodeProbeRecord ==
    /\ received = <<>>
    /\ received' = <<ParseBinaryData(ProbeRecordOf(field))>>
    /\ UNCHANGED <<mgr, env, tsk, wts, hst, rsd, lsn, field, decoded, stream, buffer, parts>>

\* lines 174 and 191, then 184-190: a read returns the next n bytes of the stream (the first
\* packet or a later chunk), the buffer grows by them and the inner loop frames, decodes and
\* dispatches every complete record; the device is enabled and one subscriber is registered
ReadChunk(n) ==
    /\ n \in 1..Len(stream)
    /\ LET got == Frames(buffer \o SubSeq(stream, 1, n), <<>>)
       IN /\ buffer' = got.buffer
          /\ received' = received \o got.out
    /\ stream' = SubSeq(stream, n + 1, Len(stream))
    /\ UNCHANGED <<mgr, env, tsk, wts, hst, rsd, lsn, field, decoded, parts>>

\* ---------------------------------------------------------------------------
\* Manager control methods
\* ---------------------------------------------------------------------------

\* mutant: a loop asleep between two attempts does not count as running
ListenerRunningUnlessAsleep ==
    conn # NoTask /\ ~TaskDone(conn) /\ pc[conn] \notin {"rapid_sleep", "backoff_sleep"}

\* mutant: the done() test inverted
ListenerRunningInverted == conn # NoTask /\ TaskDone(conn)

\* _start_listener_for_grill, line 350: a registered task that is not done keeps its place
ListenerRunning == conn # NoTask /\ ~TaskDone(conn)

\* _start_listener_for_grill, line 351: the serial is in self.grills
GrillKnown == Device \in grills

\* _start_listener_for_grill: create and register a task unless one is registered and running.
\* Sets conn, nextTask, pc, rapid.
StartListenerForGrill ==
    IF ListenerRunning \/ ~GrillKnown
    THEN UNCHANGED <<conn, nextTask, pc, rapid>>
    ELSE /\ nextTask < NumTasks
         /\ nextTask' = nextTask + 1
         /\ conn' = nextTask + 1
         /\ pc' = [pc EXCEPT ![nextTask + 1] = "start"]
         /\ rapid' = [rapid EXCEPT ![nextTask + 1] = 0]

\* enable_grill(sn, True): runs without suspending (the awaited _start_listener_for_grill has no await)
EnableGrillTrue(op) ==
    /\ enabled' = TRUE
    /\ counters' = [counters EXCEPT !.tcp_reconnect_counter = 0]
    /\ bstart' = NoTime
    /\ next_attempt' = NoTime
    /\ StartListenerForGrill
    /\ state_seen' = TRUE
    /\ ev' = Event(op, NoTask, IF ev.op = op THEN 1 ELSE 0)
    /\ nfail' = 0
    /\ delays' = <<>>
    /\ streak' = Min(streak + 1, 2)
    /\ quiet' = FALSE
    /\ UNCHANGED <<phase, writer, succ, brk, must_cancel, wake, awaiting, wts, dispatched>>

ControlPhase == phase \in {"running", "stopped"}

\* G32EnableSwitch.async_turn_on -> enable_grill(sn, True)
EnableTrue ==
    /\ ControlPhase
    /\ calls < MaxCalls
    /\ calls' = calls + 1
    /\ EnableGrillTrue("enable_true")
    /\ UNCHANGED <<tracker_entity, tracker_state, now, pending, dsc>>
    /\ UNCHANGED aux

\* mutant: a device whose loop was cancelled by the switch is left off
ConnectNotNeededWhenSwitchedOff ==
    IsGrillEnabled \/ (nextTask > 0 /\ pc[nextTask] = "cancelled")

\* mutant: the early return is missing
ConnectAlways == FALSE

\* connect_if_needed, line 87: nothing to do for an enabled grill
ConnectNotNeeded == IsGrillEnabled

\* connect_if_needed, run as the task created by _state_change_handler or by the initial check
\* of async_update_options: returns when the grill is enabled, otherwise enable_grill(sn, True)
ConnectIfNeeded ==
    /\ ControlPhase
    /\ pending > 0
    /\ pending' = pending - 1
    /\ IF ConnectNotNeeded
       THEN /\ ev' = Event("connect_noop", NoTask, 0)
            /\ UNCHANGED <<mgr, tsk, wts, dispatched, nfail, delays, streak, quiet>>
       ELSE EnableGrillTrue("connect_enable")
    /\ UNCHANGED <<tracker_entity, tracker_state, now, calls, dsc>>
    /\ UNCHANGED aux

\* mutant: the done() test inverted, a running task is neither cancelled nor awaited
MustAwaitInverted(t) == t # NoTask /\ TaskDone(t)

\* _stop_listener_for_grill, line 358: the popped task is cancelled and awaited
MustAwait(t) == t # NoTask /\ ~TaskDone(t)

\* a socket read: the handshake wait_for(reader.read) or the streaming reader.read
InSocketRead(t) == pc[t] \in {"handshake", "streaming"}

\* G32EnableSwitch.async_turn_off -> enable_grill(sn, False), up to the await of the popped task
\* in _stop_listener_for_grill (or to the end when there is nothing to await)
EnableFalse ==
    /\ ControlPhase
    /\ calls < MaxCalls
    /\ calls' = calls + 1
    /\ enabled' = FALSE
    /\ conn' = NoTask
    /\ streak' = 0
    /\ nfail' = 0
    /\ UNCHANGED delays
    /\ IF MustAwait(conn)
       THEN /\ must_cancel' = [must_cancel EXCEPT ![conn] = TRUE]
            /\ ext_wait' = ext_wait \cup {[t |-> conn, rd |-> InSocketRead(conn)]}
            /\ ev' = Event("disable_call", conn, 0)
            /\ UNCHANGED <<state_seen, quiet>>
       ELSE /\ state_seen' = FALSE
            /\ ev' = Event("disable_return", conn,
                           IF conn # NoTask /\ InSocketRead(conn) THEN 1 ELSE 0)
            /\ quiet' = IF conn # NoTask /\ InSocketRead(conn) THEN TRUE ELSE quiet
            /\ UNCHANGED <<must_cancel, ext_wait>>
    /\ UNCHANGED <<phase, counters, bstart, next_attempt, tracker_entity, tracker_state, now,
                   pending, dsc, nextTask, pc, rapid, writer, succ, brk, wake, awaiting, shut_wait,
                   dispatched>>
    /\ UNCHANGED aux

\* enable_grill(sn, False) resumes once the awaited task is done: a CancelledError is swallowed,
\* any other exception of the task propagates to the caller before the dispatches
EnableFalseReturn(w) ==
    /\ w \in ext_wait
    /\ TaskDone(w.t)
    /\ ext_wait' = ext_wait \ {w}
    /\ IF pc[w.t] = "failed"
       THEN /\ ev' = Event("disable_raise", w.t, 0)
            /\ UNCHANGED <<state_seen, quiet>>
       ELSE /\ state_seen' = enabled
            /\ ev' = Event("disable_return", w.t, IF w.rd THEN 1 ELSE 0)
            /\ quiet' = IF w.rd /\ ~enabled THEN TRUE ELSE quiet
    /\ UNCHANGED <<phase, enabled, conn, counters, bstart, next_attempt, env, tsk, shut_wait,
                   dispatched, nfail, delays, streak>>
    /\ UNCHANGED aux

\* async_get_grill_details, successful: one login, one device-list call, setdefault of the
\* enabled flag and of the per-device counters
Discover ==
    /\ phase = "new"
    /\ phase' = "discovered"
    /\ counters' = [counters EXCEPT !.api_login_calls = @ + 1, !.api_grills_calls = @ + 1]
    /\ enabled' = TRUE
    /\ counted' = [counted EXCEPT !.api_login_calls = @ + 1, !.api_grills_calls = @ + 1]
    /\ grills' = AccountGrills
    /\ entries' = entries \cup AccountGrills
    /\ ev' = Event("discover", NoTask, 0)
    /\ UNCHANGED <<conn, bstart, next_attempt, state_seen, tracker_entity, tracker_state, now,
                   calls, pending, tsk, wts, dispatched, nfail, delays, streak, quiet>>
    /\ UNCHANGED aux

\* mutant: the handler reacts to the tracker leaving home
HandlerTriggersOnLeave(s) == s = "not_home"

\* _state_change_handler, lines 94-98 (and line 110): a new state "home" triggers the check
HandlerTriggers(s) == s = "home"

\* async_get_grill_details when the first device-list request is answered 401/403: the token is
\* dropped, the second round logs in again and succeeds: two logins, two device-list calls
DiscoverAfterRelogin ==
    /\ phase = "new"
    /\ phase' = "discovered"
    /\ counters' = [counters EXCEPT !.api_login_calls = @ + 2, !.api_grills_calls = @ + 2]
    /\ counted' = [counted EXCEPT !.api_login_calls = @ + 2, !.api_grills_calls = @ + 2]
    /\ grills' = AccountGrills
    /\ entries' = entries \cup AccountGrills
    /\ enabled' = TRUE
    /\ ev' = Event("discover", NoTask, 1)
    /\ UNCHANGED <<conn, bstart, next_attempt, state_seen, tracker_entity, tracker_state, now,
                   calls, pending, tsk, wts, dispatched, nfail, delays, streak, quiet>>
    /\ UNCHANGED aux

\* what the device-list request may answer: the list, status 401/403, or another failure
\* (a status of 400 or above, a transport error, a body that is not JSON)
ListResponses == {"ok", "unauthorized", "error"}

\* mutant: only the other failures raise, a 401/403 goes on to the parsing of the body
RaisesOnlyOnError(r) == r = "error"

\* lines 133 and 144: response.raise_for_status() or the request raises ClientError
Raises(r) == r \in {"unauthorized", "error"}

\* line 134: (await response.json()).get("data", [])
DataOf(r) == IF r = "ok" THEN AccountGrills ELSE {}

\* lines 125-145 for one answer r of the device-list request in round `attempt`:
\* "retry" (tokens cleared, continue), "fail" (break) or "done" (list stored, return True)
AfterRequest(attempt, r) ==
    IF r = "unauthorized" /\ attempt < 1 THEN "retry"
    ELSE IF Raises(r) THEN "fail"
    ELSE "done"

\* async_get_grill_details on a client without token: l1, l2 are the results of the logins
\* and r1, r2 the answers of the device-list requests of the two rounds. Gives the value
\* returned, the calls counted and the device list stored (NoList: self.grills not assigned)
NoList == {0}
GetGrillDetails(l1, r1, l2, r2) ==
    IF ~l1 THEN [ok |-> FALSE, logins |-> 1, lists |-> 0, data |-> NoList]
    ELSE IF AfterRequest(0, r1) = "done"
    THEN [ok |-> TRUE, logins |-> 1, lists |-> 1, data |-> DataOf(r1)]
    ELSE IF AfterRequest(0, r1) = "fail"
    THEN [ok |-> FALSE, logins |-> 1, lists |-> 1, data |-> NoList]
    ELSE IF ~l2 THEN [ok |-> FALSE, logins |-> 2, lists |-> 1, data |-> NoList]
    ELSE IF AfterRequest(1, r2) = "done"
    THEN [ok |-> TRUE, logins |-> 2, lists |-> 2, data |-> DataOf(r2)]
    ELSE [ok |-> FALSE, logins |-> 2, lists |-> 2, data |-> NoList]

\* the authentication fails: the login fails, or the device-list request is rejected as
\* unauthorized and then the re-login fails or the request is rejected again
AuthFails(l1, r1, l2, r2) == ~l1 \/ (r1 = "unauthorized" /\ (~l2 \/ r2 = "unauthorized"))

\* async_setup_entry line 29 with a discovery whose authentication fails: the setup ends
\* when async_get_grill_details returns False
DiscoverRejected(l1, r1, l2, r2) ==
    /\ phase = "new"
    /\ AuthFails(l1, r1, l2, r2)
    /\ LET out == GetGrillDetails(l1, r1, l2, r2)
           list == IF out.data = NoList THEN grills ELSE out.data
       IN /\ phase' = IF out.ok THEN "discovered" ELSE "setup_failed"
          /\ counters' = [counters EXCEPT !.api_login_calls = @ + out.logins,
                                           !.api_grills_calls = @ + out.lists]
          /\ counted' = [counted EXCEPT !.api_login_calls = @ + out.logins,
                                         !.api_grills_calls = @ + out.lists]
          /\ grills' = list
          /\ entries' = IF out.ok THEN entries \cup list ELSE entries
          /\ enabled' = IF out.ok /\ Device \in list THEN TRUE ELSE enabled
          /\ ev' = Event("discover_rejected", NoTask, out.logins + out.lists)
    /\ UNCHANGED <<conn, bstart, next_attempt, state_seen, tracker_entity, tracker_state, now,
                   calls, pending, tsk, wts, dispatched, nfail, delays, streak, quiet>>
    /\ UNCHANGED aux

\* the event name of a sync_counter call, by counter id
SyncOp == [api_login_calls |-> "sync_login", api_grills_calls |-> "sync_grills",
           tcp_connection_attempts |-> "sync_attempts",
           tcp_reconnect_counter |-> "sync_reconnect"]

\* the restored values a diagnostic sensor hands to sync_counter (0 when nothing was restored)
RestoredValues == 0..MaxRestored

\* the sensors are added, and sync_counter is called, once the devices are known
SyncPhase == phase \in {"configured", "running"}

\* mutant: the restored value replaces the session value
ReseedOverwrites(cur, v) == v

\* sync_counter, lines 98-99 and 105-106: restored_value + current_session_value
Reseed(cur, v) == v + cur

\* mutant: the once-only guard is missing
NeverSynced(c) == FALSE

\* sync_counter, line 101: counter_id in self._synced_global_counters
AlreadySynced(c) == c \in synced

\* sync_counter(counter_id, restored_value, None), called by the diagnostic sensor of a
\* global counter when it is added to hass
SyncGlobal(c, v) ==
    /\ SyncPhase
    /\ reseeds < MaxReseeds
    /\ reseeds' = reseeds + 1
    /\ seed' = [seed EXCEPT ![c] = IF @ = NoSeed THEN v ELSE @]
    /\ ev' = Event(SyncOp[c], 0, v)
    /\ IF AlreadySynced(c)
       THEN UNCHANGED <<counters, synced>>
       ELSE /\ counters' = [counters EXCEPT ![c] = Reseed(@, v)]
            /\ synced' = synced \cup {c}
    /\ UNCHANGED <<phase, enabled, conn, bstart, next_attempt, state_seen, env, tsk, wts,
                   dispatched, nfail, delays, streak, quiet, other, seeded, cdc, lsn>>

\* sync_counter(counter_id, restored_value, serial_number), called by the diagnostic sensor of a
\* per-device counter; dev = 1 is the device of the model, dev = 2 another serial number
SyncDevice(c, v, dev) ==
    /\ SyncPhase
    /\ reseeds < MaxReseeds
    /\ reseeds' = reseeds + 1
    /\ ev' = Event(SyncOp[c], dev, v)
    /\ IF dev = 1
       THEN /\ counters' = [counters EXCEPT ![c] = Reseed(@, v)]
            /\ seeded' = IF c = "tcp_connection_attempts" THEN seeded + v ELSE seeded
            /\ UNCHANGED other
       ELSE /\ other' = [other EXCEPT ![c] = Reseed(@, v)]
            /\ UNCHANGED <<counters, seeded>>
    /\ UNCHANGED <<phase, enabled, conn, bstart, next_attempt, state_seen, env, tsk, wts,
                   dispatched, nfail, delays, streak, quiet, synced, seed, cdc, lsn>>

\* async_update_options at setup: register_device_tracker with the configured entity (or none);
\* s is the state hass holds for that entity; lines 109-112 create a connect_if_needed task
\* when a tracked entity is at home
UpdateOptions(e, s) ==
    /\ phase = "discovered"
    /\ phase' = "configured"
    /\ tracker_entity' = e
    /\ tracker_state' = IF e THEN s ELSE "missing"
    /\ pending' = IF e /\ HandlerTriggers(s) THEN pending + 1 ELSE pending
    /\ ev' = Event("update_options", NoTask, 0)
    /\ UNCHANGED <<enabled, conn, counters, bstart, next_attempt, state_seen, now, calls, dsc,
                   tsk, wts, dispatched, nfail, delays, streak, quiet>>
    /\ UNCHANGED aux

\* the tracked entity changes state in hass; _state_change_handler (registered by
\* async_update_options, unsubscribed at shutdown) creates a connect_if_needed task when the
\* new state is "home"
TrackerChange(s) ==
    /\ tracker_entity
    /\ phase \in {"configured", "running"}
    /\ s # tracker_state
    /\ tracker_state' = s
    /\ ev' = Event("tracker_change", NoTask, 0)
    /\ IF HandlerTriggers(s)
       THEN /\ calls < MaxCalls
            /\ calls' = calls + 1
            /\ pending' = pending + 1
       ELSE UNCHANGED <<calls, pending>>
    /\ UNCHANGED <<mgr, tracker_entity, now, dsc, tsk, wts, dispatched, nfail, delays, streak, quiet>>
    /\ UNCHANGED aux

\* async_start_listeners: one _start_listener_for_grill per enabled grill
StartListeners ==
    /\ phase = "configured"
    /\ phase' = "running"
    /\ IF IsGrillEnabled THEN StartListenerForGrill
       ELSE UNCHANGED <<conn, nextTask, pc, rapid>>
    /\ ev' = Event("start_listeners", NoTask, 0)
    /\ UNCHANGED <<enabled, counters, bstart, next_attempt, state_seen, env,
                   writer, succ, brk, must_cancel, wake, awaiting, wts,
                   dispatched, nfail, delays, streak, quiet>>
    /\ UNCHANGED aux

\* async_stop_listeners, up to the await in _stop_listener_for_grill: the registered task is
\* popped and cancelled; the enabled flag is not touched
StopListeners ==
    /\ phase = "running"
    /\ phase' = "stopped"
    /\ conn' = NoTask
    /\ IF MustAwait(conn)
       THEN /\ must_cancel' = [must_cancel EXCEPT ![conn] = TRUE]
            /\ shut_wait' = conn
       ELSE UNCHANGED <<must_cancel, shut_wait>>
    /\ ev' = Event("stop_listeners", conn, 0)
    /\ UNCHANGED <<enabled, counters, bstart, next_attempt, state_seen, env,
                   nextTask, pc, rapid, writer, succ, brk, wake, awaiting, ext_wait,
                   dispatched, nfail, delays, streak, quiet>>
    /\ UNCHANGED aux

\* async_stop_listeners resumes once the awaited task is done
StopListenersReturn ==
    /\ shut_wait # NoTask
    /\ TaskDone(shut_wait)
    /\ shut_wait' = NoTask
    /\ ev' = Event(IF pc[shut_wait] = "failed" THEN "stop_raise" ELSE "stop_return", shut_wait, 0)
    /\ UNCHANGED <<mgr, env, tsk, ext_wait, dispatched, nfail, delays, streak, quiet>>
    /\ UNCHANGED aux

\* ---------------------------------------------------------------------------
\* The Session Loop task (_tcp_listener_loop)
\* ---------------------------------------------------------------------------

\* lines 161 and 219: the loop's own `await self.enable_grill(serial_number, False)`, up to the
\* await of the popped task in _stop_listener_for_grill; with nothing to await the call runs to
\* its end (state dispatch) and the loop breaks.
\* Sets enabled, conn, streak, must_cancel, awaiting, pc, state_seen, ev.
SelfDisable(t, op) ==
    /\ enabled' = FALSE
    /\ conn' = NoTask
    /\ streak' = 0
    /\ ev' = Event(op, t, 0)
    /\ IF MustAwait(conn)
       THEN /\ must_cancel' = [must_cancel EXCEPT ![conn] = TRUE]
            /\ awaiting' = [awaiting EXCEPT ![t] = conn]
            /\ pc' = [pc EXCEPT ![t] = "self_stop"]
            /\ UNCHANGED state_seen
       ELSE /\ state_seen' = FALSE
            /\ pc' = [pc EXCEPT ![t] = "done"]
            /\ UNCHANGED <<must_cancel, awaiting>>

\* lines 157-165: the head of the while loop, run up to the await of open_connection.
\* Sets enabled, conn, streak, must_cancel, awaiting, pc, state_seen, ev, counters.
LoopTop(t, cap) ==
    IF ~IsGrillEnabled
    THEN /\ pc' = [pc EXCEPT ![t] = "done"]
         /\ ev' = Event("loop_exit", t, 0)
         /\ UNCHANGED <<enabled, conn, streak, must_cancel, awaiting, state_seen, counters>>
    ELSE IF ~IsDeviceTrackerHome
    THEN /\ SelfDisable(t, "gate_disable")
         /\ UNCHANGED counters
    ELSE /\ counters.tcp_connection_attempts - seeded < cap
         /\ counters' = [counters EXCEPT !.tcp_connection_attempts = @ + 1]
         /\ pc' = [pc EXCEPT ![t] = "connecting"]
         /\ ev' = Event("attempt", t, 0)
         /\ UNCHANGED <<enabled, conn, streak, must_cancel, awaiting, state_seen>>

\* line 205: the failure stays in the rapid tier
RapidTier(rr) == rr < RAPID_RETRY_ATTEMPTS

\* mutant: the threshold taken in seconds
GiveUpDueSeconds(elapsed) == elapsed > OVERALL_TIMEOUT_MINUTES

\* mutant: the threshold taken in hours
GiveUpDueHours(elapsed) == elapsed > OVERALL_TIMEOUT_MINUTES * 3600

\* line 216: elapsed > timedelta(minutes=OVERALL_TIMEOUT_MINUTES)
GiveUpDue(elapsed) == elapsed > OVERALL_TIMEOUT_MINUTES * 60

\* mutant: the delay is not capped
BackoffDelayUncapped(attempt) == INITIAL_RETRY_DELAY_SECONDS * Pow2(attempt)

\* line 223: min(MAX_RETRY_DELAY_SECONDS, INITIAL_RETRY_DELAY_SECONDS * (2 ** attempt))
BackoffDelay(attempt) ==
    Min(MAX_RETRY_DELAY_SECONDS, INITIAL_RETRY_DELAY_SECONDS * Pow2(attempt))

\* lines 200-229: what follows the try/finally of one attempt, up to the next await;
\* cs is the local connection_succeeded.
\* Sets what LoopTop sets, and rapid, bstart, next_attempt, wake, nfail.
AfterAttempt(t, cap, cs) ==
    IF cs \/ ~IsGrillEnabled
    THEN /\ LoopTop(t, cap)
         /\ UNCHANGED <<rapid, bstart, next_attempt, wake, nfail, delays>>
    ELSE LET rr == rapid[t] + 1
             first == bstart = NoTime
             bs == IF first THEN now ELSE bstart
             attempt == IF first THEN 0 ELSE counters.tcp_reconnect_counter
             delay == BackoffDelay(attempt)
             sofar == IF first THEN <<>> ELSE delays
         IN /\ rapid' = [rapid EXCEPT ![t] = rr]
            /\ nfail' = nfail + 1
            /\ delays' = IF RapidTier(rr) \/ GiveUpDue(now - bs) THEN delays
                          ELSE Append(sofar, delay)
            /\ IF RapidTier(rr)
               THEN /\ pc' = [pc EXCEPT ![t] = "rapid_sleep"]
                    /\ wake' = [wake EXCEPT ![t] = now + RAPID_RETRY_DELAY_SECONDS]
                    /\ ev' = Event("rapid_sleep", t, RAPID_RETRY_DELAY_SECONDS)
                    /\ UNCHANGED <<enabled, conn, streak, must_cancel, awaiting, state_seen,
                                   counters, bstart, next_attempt>>
               ELSE /\ bstart' = bs
                    /\ IF GiveUpDue(now - bs)
                       THEN /\ next_attempt' = NoTime
                            /\ counters' = [counters EXCEPT !.tcp_reconnect_counter = attempt]
                            /\ SelfDisable(t, "give_up")
                            /\ UNCHANGED wake
                       ELSE /\ next_attempt' = now + delay
                            /\ counters' = [counters EXCEPT !.tcp_reconnect_counter = attempt + 1]
                            /\ pc' = [pc EXCEPT ![t] = "backoff_sleep"]
                            /\ wake' = [wake EXCEPT ![t] = now + delay]
                            /\ ev' = Event("backoff_sleep", t, delay)
                            /\ UNCHANGED <<enabled, conn, streak, must_cancel, awaiting,
                                           state_seen>>

\* a task may run its next step: it is suspended and no cancellation is pending
Runs(t, at) == pc[t] = at /\ ~must_cancel[t]

\* first step of a created task: lines 154-165
TaskStart(t, cap) ==
    /\ Runs(t, "start")
    /\ LoopTop(t, cap)
    /\ UNCHANGED <<phase, bstart, next_attempt, env, nextTask, rapid, writer, succ, brk, wake,
                   wts, dispatched, nfail, delays, quiet>>
    /\ UNCHANGED aux

\* line 169 raises ConnectionError/OSError: writer is None, nothing to close, lines 200-229 follow
ConnectFail(t, cap) ==
    /\ Runs(t, "connecting")
    /\ succ' = [succ EXCEPT ![t] = FALSE]
    /\ AfterAttempt(t, cap, FALSE)
    /\ UNCHANGED <<phase, env, nextTask, writer, brk, wts, dispatched, quiet>>
    /\ UNCHANGED aux

\* lines 169-174: connected, subscribe message written, waiting for the first packet
ConnectOk(t) ==
    /\ Runs(t, "connecting")
    /\ writer' = [writer EXCEPT ![t] = "open"]
    /\ succ' = [succ EXCEPT ![t] = FALSE]
    /\ wake' = [wake EXCEPT ![t] = now + HEARTBEAT_TIMEOUT_SECONDS]
    /\ pc' = [pc EXCEPT ![t] = "handshake"]
    /\ ev' = Event("connected", t, 0)
    /\ UNCHANGED <<mgr, env, nextTask, rapid, brk, must_cancel, awaiting, wts,
                   dispatched, nfail, delays, streak, quiet>>
    /\ UNCHANGED aux

\* line 198: writer.close() and the await of wait_closed
CloseWriter(t) ==
    /\ writer' = [writer EXCEPT ![t] = "closing"]
    /\ pc' = [pc EXCEPT ![t] = "closing"]

\* mutant: the rapid retry count is not reset
HandshakeResetKeepsRapid(t) ==
    /\ UNCHANGED rapid
    /\ counters' = [counters EXCEPT !.tcp_reconnect_counter = 0]
    /\ bstart' = NoTime
    /\ next_attempt' = NoTime

\* mutant: the backoff epoch is not popped
HandshakeResetKeepsEpoch(t) ==
    /\ rapid' = [rapid EXCEPT ![t] = 0]
    /\ counters' = [counters EXCEPT !.tcp_reconnect_counter = 0]
    /\ UNCHANGED bstart
    /\ next_attempt' = NoTime

\* lines 179-181: a successful handshake clears the retry state
HandshakeReset(t) ==
    /\ rapid' = [rapid EXCEPT ![t] = 0]
    /\ counters' = [counters EXCEPT !.tcp_reconnect_counter = 0]
    /\ bstart' = NoTime
    /\ next_attempt' = NoTime

\* lines 176-193: a non-empty first packet: the retry state is cleared, then k records of the
\* buffer are dispatched and the loop waits in reader.read (or leaves the inner loop when the
\* grill is no longer enabled)
HandshakeData(t, k) ==
    /\ Runs(t, "handshake")
    /\ dispatched + k <= MaxDispatch
    /\ succ' = [succ EXCEPT ![t] = TRUE]
    /\ HandshakeReset(t)
    /\ nfail' = 0
    /\ delays' = <<>>
    /\ ev' = Event("handshake_ok", t, nfail)
    /\ IF IsGrillEnabled
       THEN /\ dispatched' = dispatched + k
            /\ pc' = [pc EXCEPT ![t] = "streaming"]
            /\ UNCHANGED writer
       ELSE /\ CloseWriter(t)
            /\ UNCHANGED dispatched
    /\ UNCHANGED <<phase, enabled, conn, state_seen, env, nextTask, brk, must_cancel, wake,
                   awaiting, wts, streak, quiet>>
    /\ UNCHANGED aux

\* line 176: zero-length first read; lines 174/171: ConnectionError/OSError while waiting
HandshakeFail(t) ==
    /\ Runs(t, "handshake")
    /\ CloseWriter(t)
    /\ ev' = Event("handshake_fail", t, 0)
    /\ UNCHANGED <<mgr, env, nextTask, rapid, succ, brk, must_cancel, wake, awaiting, wts,
                   dispatched, nfail, delays, streak, quiet>>
    /\ UNCHANGED aux

\* line 174: wait_for raises TimeoutError once HEARTBEAT_TIMEOUT_SECONDS have passed
HandshakeTimeout(t) ==
    /\ Runs(t, "handshake")
    /\ now' = Max(now, wake[t])
    /\ CloseWriter(t)
    /\ ev' = Event("handshake_timeout", t, 0)
    /\ UNCHANGED <<mgr, tracker_entity, tracker_state, calls, pending, dsc, nextTask, rapid, succ, brk,
                   must_cancel, wake, awaiting, wts, dispatched, nfail, delays, streak, quiet>>
    /\ UNCHANGED aux

\* lines 185-193: reader.read returns data; k records complete in the buffer are dispatched
StreamData(t, k) ==
    /\ Runs(t, "streaming")
    /\ dispatched + k <= MaxDispatch
    /\ ev' = Event("stream_data", t, k)
    /\ IF IsGrillEnabled
       THEN /\ dispatched' = dispatched + k
            /\ UNCHANGED <<pc, writer>>
       ELSE /\ CloseWriter(t)
            /\ UNCHANGED dispatched
    /\ UNCHANGED <<mgr, env, nextTask, rapid, succ, brk, must_cancel, wake, awaiting, wts,
                   nfail, delays, streak, quiet>>
    /\ UNCHANGED aux

\* line 192: zero-length read while streaming: connection_succeeded = False; break
StreamClosed(t) ==
    /\ Runs(t, "streaming")
    /\ succ' = [succ EXCEPT ![t] = FALSE]
    /\ CloseWriter(t)
    /\ ev' = Event("stream_closed", t, 0)
    /\ UNCHANGED <<mgr, env, nextTask, rapid, brk, must_cancel, wake, awaiting, wts,
                   dispatched, nfail, delays, streak, quiet>>
    /\ UNCHANGED aux

\* line 191 raises ConnectionError/OSError: caught at line 194, connection_succeeded stays True
StreamError(t) ==
    /\ Runs(t, "streaming")
    /\ CloseWriter(t)
    /\ ev' = Event("stream_error", t, 0)
    /\ UNCHANGED <<mgr, env, nextTask, rapid, succ, brk, must_cancel, wake, awaiting, wts,
                   dispatched, nfail, delays, streak, quiet>>
    /\ UNCHANGED aux

\* line 198 returns: the socket is closed; the pending break ends the task, otherwise
\* lines 200-229 follow
CloseDone(t, cap) ==
    /\ Runs(t, "closing")
    /\ writer' = [writer EXCEPT ![t] = "closed"]
    /\ brk' = [brk EXCEPT ![t] = FALSE]
    /\ IF brk[t]
       THEN /\ pc' = [pc EXCEPT ![t] = "done"]
            /\ ev' = Event("loop_break", t, 0)
            /\ UNCHANGED <<enabled, conn, streak, must_cancel, awaiting, state_seen, counters,
                           rapid, bstart, next_attempt, wake, nfail, delays>>
       ELSE AfterAttempt(t, cap, succ[t])
    /\ UNCHANGED <<phase, env, nextTask, succ, wts, dispatched, quiet>>
    /\ UNCHANGED aux

\* line 198: wait_closed raises the connection's error: nothing catches it, the task ends
CloseError(t) ==
    /\ Runs(t, "closing")
    /\ writer' = [writer EXCEPT ![t] = "closed"]
    /\ pc' = [pc EXCEPT ![t] = "failed"]
    /\ ev' = Event("close_error", t, 0)
    /\ UNCHANGED <<mgr, env, nextTask, rapid, succ, brk, must_cancel, wake, awaiting, wts,
                   dispatched, nfail, delays, streak, quiet>>
    /\ UNCHANGED aux

\* lines 178-189 and 151: the first packet holds a complete record and a telemetry listener
\* raises inside _dispatch_data: the retry state is already cleared, no except clause matches,
\* the finally block closes the socket with the exception in flight
HandshakeDispatchError(t) ==
    /\ Runs(t, "handshake")
    /\ IsGrillEnabled
    /\ dispatched + 1 <= MaxDispatch
    /\ dispatched' = dispatched + 1
    /\ succ' = [succ EXCEPT ![t] = TRUE]
    /\ HandshakeReset(t)
    /\ nfail' = 0
    /\ delays' = <<>>
    /\ writer' = [writer EXCEPT ![t] = "closing"]
    /\ pc' = [pc EXCEPT ![t] = "closing_exc"]
    /\ ev' = Event("dispatch_error", t, 0)
    /\ UNCHANGED <<phase, enabled, conn, state_seen, env, nextTask, brk, must_cancel, wake,
                   awaiting, wts, streak, quiet>>
    /\ UNCHANGED aux

\* lines 189-193 and 151: a record completed by a later read is dispatched and a telemetry
\* listener raises
StreamDispatchError(t) ==
    /\ Runs(t, "streaming")
    /\ IsGrillEnabled
    /\ dispatched + 1 <= MaxDispatch
    /\ dispatched' = dispatched + 1
    /\ writer' = [writer EXCEPT ![t] = "closing"]
    /\ pc' = [pc EXCEPT ![t] = "closing_exc"]
    /\ ev' = Event("dispatch_error", t, 1)
    /\ UNCHANGED <<mgr, env, nextTask, rapid, succ, brk, must_cancel, wake, awaiting, wts,
                   nfail, delays, streak, quiet>>
    /\ UNCHANGED aux

\* line 198 with an exception in flight: when wait_closed returns (or raises) the exception
\* leaves the coroutine and the task ends with it
CloseReraise(t) ==
    /\ Runs(t, "closing_exc")
    /\ writer' = [writer EXCEPT ![t] = "closed"]
    /\ pc' = [pc EXCEPT ![t] = "failed"]
    /\ ev' = Event("task_error", t, 0)
    /\ UNCHANGED <<mgr, env, nextTask, rapid, succ, brk, must_cancel, wake, awaiting, wts,
                   dispatched, nfail, delays, streak, quiet>>
    /\ UNCHANGED aux

\* lines 207 and 229: asyncio.sleep returns no earlier than its deadline; the loop head follows
SleepDone(t, cap) ==
    /\ pc[t] \in {"rapid_sleep", "backoff_sleep"}
    /\ ~must_cancel[t]
    /\ now' = Max(now, wake[t])
    /\ LoopTop(t, cap)
    /\ UNCHANGED <<phase, bstart, next_attempt, tracker_entity, tracker_state, calls, pending, dsc,
                   nextTask,
                   rapid, writer, succ, brk, wake, wts, dispatched, nfail, delays, quiet>>
    /\ UNCHANGED aux

\* mutant: CancelledError missing from the break of line 195, a cancellation inside the try
\* block is handled like a connection error
CancelDeliveredAsError(t) ==
    /\ must_cancel[t]
    /\ pc[t] \in Live \ {"self_stop"}
    /\ must_cancel' = [must_cancel EXCEPT ![t] = FALSE]
    /\ ev' = Event("cancelled", t, 0)
    /\ IF pc[t] \in {"handshake", "streaming"}
       THEN /\ CloseWriter(t)
            /\ UNCHANGED brk
       ELSE /\ pc' = [pc EXCEPT ![t] = IF pc[t] = "connecting" THEN "done" ELSE "cancelled"]
            /\ UNCHANGED <<writer, brk>>
    /\ UNCHANGED <<mgr, env, nextTask, rapid, succ, wake, awaiting, wts,
                   dispatched, nfail, delays, streak, quiet>>
    /\ UNCHANGED aux

\* Task.cancel() takes effect at the task's next step: CancelledError is thrown into the await.
\* Inside the try (lines 169-193) line 195 breaks behind the finally block; in the finally
\* block, in a sleep, or before the first step the task ends cancelled.
CancelDelivered(t) ==
    /\ must_cancel[t]
    /\ pc[t] \in Live \ {"self_stop"}
    /\ must_cancel' = [must_cancel EXCEPT ![t] = FALSE]
    /\ ev' = Event("cancelled", t, 0)
    /\ IF pc[t] \in {"handshake", "streaming"}
       THEN /\ CloseWriter(t)
            /\ brk' = [brk EXCEPT ![t] = TRUE]
       ELSE /\ pc' = [pc EXCEPT ![t] = IF pc[t] = "connecting" THEN "done" ELSE "cancelled"]
            /\ UNCHANGED <<writer, brk>>
    /\ UNCHANGED <<mgr, env, nextTask, rapid, succ, wake, awaiting, wts,
                   dispatched, nfail, delays, streak, quiet>>
    /\ UNCHANGED aux

\* mutant: the RuntimeError of a task awaiting itself escapes line 360
AwaitRaisesOnSelf(t) == must_cancel[t] \/ pc[awaiting[t]] = "failed"

\* lines 360-361: the await raises something other than CancelledError only when the awaited
\* task ended with an exception; a task that cancelled itself gets its own CancelledError
AwaitRaises(t) == ~must_cancel[t] /\ pc[awaiting[t]] = "failed"

\* lines 359-361 inside the loop's own enable_grill(False): awaiting itself, the task is resumed
\* with the CancelledError of its own cancel(), which line 361 swallows; awaiting another task it
\* resumes when that task is done.  Then lines 340-341 dispatch (d = 1) and the loop breaks.
SelfStopResume(t) ==
    /\ pc[t] = "self_stop"
    /\ must_cancel[t] \/ TaskDone(awaiting[t])
    /\ must_cancel' = [must_cancel EXCEPT ![t] = FALSE]
    /\ awaiting' = [awaiting EXCEPT ![t] = NoTask]
    /\ IF AwaitRaises(t)
       THEN /\ pc' = [pc EXCEPT ![t] = "failed"]
            /\ ev' = Event("self_stop_done", t, 0)
            /\ UNCHANGED state_seen
       ELSE /\ pc' = [pc EXCEPT ![t] = "done"]
            /\ ev' = Event("self_stop_done", t, 1)
            /\ state_seen' = enabled
    /\ UNCHANGED <<phase, enabled, conn, counters, bstart, next_attempt, env, nextTask, rapid,
                   writer, succ, brk, wake, wts, dispatched, nfail, delays, streak, quiet>>
    /\ UNCHANGED aux

\* the transport of a socket closed by a task that ended inside wait_closed finishes closing
TransportClosed(t) ==
    /\ TaskDone(t)
    /\ writer[t] = "closing"
    /\ writer' = [writer EXCEPT ![t] = "closed"]
    /\ ev' = Event("transport_closed", t, 0)
    /\ UNCHANGED <<mgr, env, nextTask, pc, rapid, succ, brk, must_cancel, wake, awaiting, wts,
                   dispatched, nfail, delays, streak, quiet>>
    /\ UNCHANGED aux

\* length of one forward step of the wall clock: the give-up window
JumpSeconds == OVERALL_TIMEOUT_MINUTES * 60

\* datetime.now is the wall clock: it steps forward while the loop's timers do not run
\* (host suspended, clock adjusted)
ClockJump ==
    /\ phase = "running"
    /\ now < MaxJumps * JumpSeconds
    /\ now' = now + JumpSeconds
    /\ ev' = Event("clock_jump", NoTask, 0)
    /\ UNCHANGED <<mgr, tracker_entity, tracker_state, calls, pending, dsc, tsk, wts,
                   dispatched, nfail, delays, streak, quiet>>
    /\ UNCHANGED aux

TrackerStates == {"home", "not_home", "missing"}

\* the steps of one Session Loop task; cap bounds the connection attempts explored
LoopStep(t, cap) ==
    \/ TaskStart(t, cap)
    \/ ConnectFail(t, cap)
    \/ ConnectOk(t)
    \/ \E k \in 0..1 : HandshakeData(t, k)
    \/ HandshakeFail(t)
    \/ HandshakeTimeout(t)
    \/ \E k \in 0..1 : StreamData(t, k)
    \/ StreamClosed(t)
    \/ StreamError(t)
    \/ CloseDone(t, cap)
    \/ SleepDone(t, cap)

\* the steps of a task in which an exception escapes the try statement
ErrorStep(t) ==
    \/ CloseError(t)
    \/ HandshakeDispatchError(t)
    \/ StreamDispatchError(t)
    \/ CloseReraise(t)

\* the steps of a task that is being cancelled or stops itself
StopStep(t) ==
    \/ CancelDelivered(t)
    \/ SelfStopResume(t)
    \/ TransportClosed(t)

\* setup of the config entry (async_setup_entry)
Setup ==
    \/ Discover
    \/ \E e \in BOOLEAN, s \in TrackerStates : UpdateOptions(e, s)
    \/ StartListeners

\* the manager under every interleaving of control calls, gating changes and loop steps
Next ==
    \/ Setup
    \/ StopListeners
    \/ StopListenersReturn
    \/ EnableTrue
    \/ EnableFalse
    \/ \E w \in ext_wait : EnableFalseReturn(w)
    \/ ConnectIfNeeded
    \/ \E s \in TrackerStates : TrackerChange(s)
    \/ \E t \in Tasks : LoopStep(t, MaxAttempts) \/ ErrorStep(t) \/ StopStep(t)

Spec == Init /\ [][Next]_vars

\* the retry policy over a long horizon: one loop, no control calls, every attempt outcome
NextRetry ==
    \/ Discover
    \/ UpdateOptions(FALSE, "missing")
    \/ StartListeners
    \/ ClockJump
    \/ \E t \in Tasks : LoopStep(t, MaxRetryAttempts) \/ SelfStopResume(t)

SpecRetry == Init /\ [][NextRetry]_vars

\* the retry policy when every attempt fails: one loop, no control calls, no clock step.
\* The event loop runs every task that is ready, hence the weak fairness.
NextGiveUp ==
    \/ Discover
    \/ UpdateOptions(FALSE, "missing")
    \/ StartListeners
    \/ \E t \in Tasks :
        \/ TaskStart(t, MaxRetryAttempts)
        \/ ConnectFail(t, MaxRetryAttempts)
        \/ ConnectOk(t)
        \/ HandshakeFail(t)
        \/ HandshakeTimeout(t)
        \/ CloseDone(t, MaxRetryAttempts)
        \/ SleepDone(t, MaxRetryAttempts)
        \/ SelfStopResume(t)

SpecGiveUp == Init /\ [][NextGiveUp]_vars /\ WF_vars(NextGiveUp)

\* the gating signal alone: a tracked device, tracker changes and the connect_if_needed tasks
\* of the handler, no switch.  A task created by hass.async_create_task is run by the event
\* loop, hence the weak fairness of ConnectIfNeeded.
NextGate ==
    \/ Discover
    \/ \E s \in TrackerStates : UpdateOptions(TRUE, s)
    \/ StartListeners
    \/ \E s \in TrackerStates : TrackerChange(s)
    \/ ConnectIfNeeded
    \/ \E t \in Tasks : LoopStep(t, MaxAttempts) \/ SelfStopResume(t)

SpecGate == Init /\ [][NextGate]_vars /\ WF_vars(ConnectIfNeeded)

\* the backoff epoch over a long horizon: one loop whose every connection is refused, the
\* switch turned on again at any time and the reseed calls of the diagnostic sensors
NextEpoch ==
    \/ Discover
    \/ UpdateOptions(FALSE, "missing")
    \/ StartListeners
    \/ EnableTrue
    \/ \E c \in DeviceCounters, v \in RestoredValues : SyncDevice(c, v, Device)
    \/ \E t \in Tasks :
        \/ TaskStart(t, MaxRetryAttempts)
        \/ ConnectFail(t, MaxRetryAttempts)
        \/ SleepDone(t, MaxRetryAttempts)
        \/ SelfStopResume(t)

SpecEpoch == Init /\ [][NextEpoch]_vars

\* the gating signal and the switch: a tracked device, the switch turned off at any time,
\* tracker changes and the connect_if_needed tasks of the handler
NextSwitch ==
    \/ Discover
    \/ \E s \in TrackerStates : UpdateOptions(TRUE, s)
    \/ StartListeners
    \/ EnableFalse
    \/ \E w \in ext_wait : EnableFalseReturn(w)
    \/ \E s \in TrackerStates : TrackerChange(s)
    \/ ConnectIfNeeded
    \/ \E t \in Tasks : LoopStep(t, MaxAttempts) \/ StopStep(t)

SpecSwitch == Init /\ [][NextSwitch]_vars /\ WF_vars(ConnectIfNeeded)

\* a connection that flaps: every connection is accepted, delivers its first packet and is
\* later closed by the peer
NextFlap ==
    \/ Discover
    \/ UpdateOptions(FALSE, "missing")
    \/ StartListeners
    \/ \E t \in Tasks :
        \/ TaskStart(t, MaxRetryAttempts)
        \/ ConnectOk(t)
        \/ \E k \in 0..1 : HandshakeData(t, k)
        \/ \E k \in 0..1 : StreamData(t, k)
        \/ StreamClosed(t)
        \/ CloseDone(t, MaxRetryAttempts)
        \/ SleepDone(t, MaxRetryAttempts)

SpecFlap == Init /\ [][NextFlap]_vars

\* the diagnostic counters: discovery, the reseed calls of the sensors and one Session Loop
NextCounters ==
    \/ Discover
    \/ DiscoverAfterRelogin
    \/ \E l1, l2 \in BOOLEAN, r1, r2 \in ListResponses : DiscoverRejected(l1, r1, l2, r2)
    \/ UpdateOptions(FALSE, "missing")
    \/ StartListeners
    \/ \E c \in GlobalCounters, v \in RestoredValues : SyncGlobal(c, v)
    \/ \E c \in DeviceCounters, v \in RestoredValues, dev \in 1..2 : SyncDevice(c, v, dev)
    \/ \E t \in Tasks : LoopStep(t, MaxAttempts)

SpecCounters == Init /\ [][NextCounters]_vars

\* the decoder on every 2-byte field
InitTemp ==
    /\ InitClient
    /\ field \in Bytes \X Bytes
    /\ decoded = Undecoded
    /\ stream = <<>>
    /\ buffer = <<>>
    /\ received = <<>>
    /\ parts = <<>>

SpecTemp == InitTemp /\ [][DecodeField]_vars

\* the record decoder applied to one record with every value of the gas weight field
SpecGas == InitTemp /\ [][DecodeRecord]_vars

\* the record decoder applied to a full record with every value of the probe-1 field
SpecProbe == InitTemp /\ [][DecodeProbeRecord]_vars

\* one connection that delivers one record, split into reads in every way
InitStream ==
    /\ InitClient
    /\ field \in SampleFields
    /\ decoded = Undecoded
    /\ stream = RecordOf(field)
    /\ buffer = <<>>
    /\ received = <<>>
    /\ parts = <<>>

NextStream == \E n \in 1..PACKET_SIZE : ReadChunk(n)

SpecStream == InitStream /\ [][NextStream]_vars

\* the registries used by listeners that subscribe, are dispatched to and unsubscribe
NextListeners ==
    \/ \E k \in Kinds, sn \in Serials, l \in Listeners : Register(k, sn, l)
    \/ \E l \in Listeners : Unregister(l)
    \/ \E k \in Kinds, sn \in Serials : Dispatch(k, sn)

SpecListeners == Init /\ [][NextListeners]_vars

\* one connection that delivers one of the sample streams, split into reads in every way
InitFrames ==
    /\ InitClient
    /\ field = <<0, 0>>
    /\ decoded = Undecoded
    /\ parts \in SampleStreams
    /\ stream = Flatten(parts)
    /\ buffer = <<>>
    /\ received = <<>>

NextFrames == \E n \in 1..Min(READ_SIZE, Len(stream)) : ReadChunk(n)

SpecFrames == InitFrames /\ [][NextFrames]_vars

\* ---------------------------------------------------------------------------
\* Claims
\* ---------------------------------------------------------------------------

\* no enable_grill(False) is in progress: no caller and no loop awaits a cancelled task
NoStopInFlight ==
    /\ ext_wait = {}
    /\ shut_wait = NoTask
    /\ \A t \in Tasks : pc[t] # "self_stop"

\* C1: at most one Session Loop task of the device is live at any instant, under every
\* interleaving of enable(true), enable(false), connect_if_needed and the loop's steps
\* (between the start of the listeners and shutdown).
C1_OneLiveTask == phase = "running" => Cardinality(LiveTasks) <= 1

\* C2: when an enable(false) that found the loop suspended in a socket read returns, the loop
\* task has ended and its socket is closed, and no telemetry is dispatched from then on until
\* the device is enabled again.
C2_DisableMidRead ==
    /\ [](ev.op = "disable_return" /\ ev.d = 1
            => TaskDone(ev.t) /\ writer[ev.t] = "closed")
    /\ [][quiet => dispatched' = dispatched]_vars

C2_Witness ==
    /\ ev.op = "disable_return"
    /\ ev.d = 1
    /\ quiet
    /\ dispatched > 0

\* C3: an enable(true) that directly follows an enable(true) creates no task: the registered
\* task stays the same running task, and with no disable in progress it is the only live one.
C3_NoSecondLoop ==
    [][(ev.op = "enable_true" /\ ev'.op = "enable_true")
        => /\ nextTask' = nextTask
           /\ conn' = conn
           /\ pc' = pc
           /\ conn \in LiveTasks
           /\ (NoStopInFlight => LiveTasks' = {conn'})]_vars

C3_Witness ==
    /\ ev.op = "enable_true"
    /\ ev.d = 1
    /\ LiveTasks = {conn}

\* the delay the claim C4 expects after the i-th consecutive failure
C4_Expected(i) ==
    IF i <= 5 THEN 2 ELSE Min(300, 30 * Pow2(i - 6))

\* C4: the delay slept after the i-th consecutive failure is 2 s for i = 1..5 and
\* min(300, 30 * 2^(i-6)) s from the 6th failure on.
C4_DelaySchedule ==
    ev.op \in {"rapid_sleep", "backoff_sleep"} => ev.d = C4_Expected(nfail)

\* C5: right after a successful handshake the rapid-retry count and the backoff-attempt count
\* are 0 and the backoff-epoch timestamp is absent, whatever the retry state was.
C5_SuccessResets ==
    ev.op = "handshake_ok"
        => /\ rapid[ev.t] = 0
           /\ counters.tcp_reconnect_counter = 0
           /\ bstart = NoTime

\* a handshake succeeds after at least six consecutive failures (exponential tier)
C5_Witness ==
    /\ ev.op = "handshake_ok"
    /\ ev.d >= 6
    /\ bstart = NoTime

\* the device has given up: disabled, no loop task left, epoch older than 30 minutes
C6_GaveUp ==
    /\ ~enabled
    /\ LiveTasks = {}
    /\ bstart # NoTime
    /\ now - bstart > 30 * 60

C8_Permitted == ~tracker_entity \/ tracker_state = "home"

\* C8: a connection attempt starts only while the gating signal permits; when it does not,
\* the loop head disables the device and the loop ends without an attempt and without
\* changing a retry counter; without a configured signal the loop is never gated.
C8_GatingBeforeAttempt ==
    /\ [][ev'.op = "attempt" => C8_Permitted]_vars
    /\ [][ev'.op = "gate_disable"
            => /\ ~C8_Permitted
               /\ ~enabled'
               /\ counters' = counters
               /\ rapid' = rapid
               /\ bstart' = bstart
               /\ next_attempt' = next_attempt
               /\ \A t \in Tasks : writer'[t] = "open" => writer[t] = "open"
               /\ pc'[ev'.t] \in {"self_stop", "done"}]_vars
    /\ [][\A t \in Tasks : pc[t] = "self_stop" => pc'[t] \in {"self_stop"} \cup Terminal]_vars
    /\ [][\A t \in Tasks : (pc[t] \in {"start", "rapid_sleep", "backoff_sleep"}
                             /\ pc'[t] # pc[t] /\ ~must_cancel[t]
                             /\ enabled /\ ~C8_Permitted)
                            => ev'.op = "gate_disable"]_vars

\* the loop is gated before a retry (not only before the first attempt)
C8_Witness ==
    /\ ev.op = "gate_disable"
    /\ counters.tcp_connection_attempts >= 1
    /\ ~enabled

\* C9: connect_if_needed changes nothing when the device is enabled, and has the effect of
\* enable(true) when it is disabled; after it the device is enabled, so repeating it is a no-op.
C9_ConnectIdempotent ==
    /\ [][ev'.op = "connect_noop" /\ pending' # pending
            => enabled /\ UNCHANGED <<mgr, tsk, wts, dispatched>>]_vars
    /\ [][ev'.op = "connect_enable" /\ pending' # pending
            => /\ ~enabled
               /\ enabled'
               /\ counters' = [counters EXCEPT !.tcp_reconnect_counter = 0]
               /\ bstart' = NoTime
               /\ next_attempt' = NoTime
               /\ state_seen'
               /\ conn' \in LiveTasks'
               /\ IF conn \in LiveTasks
                  THEN conn' = conn /\ pc' = pc
                  ELSE conn' = nextTask' /\ nextTask' = nextTask + 1
                       /\ pc' = [pc EXCEPT ![conn'] = "start"]]_vars
    /\ [](ev.op \in {"connect_noop", "connect_enable"} => enabled)

\* connect_if_needed is called on an enabled device whose loop is in the middle of its retries
C9_Witness ==
    /\ ev.op = "connect_noop"
    /\ ~state_seen
    /\ counters.tcp_connection_attempts >= 1

\* C10: after enable(true) returns the rapid-retry count and the backoff-attempt count are 0,
\* the backoff epoch is absent and a loop is live, also when a loop was already running.
C10_EnableClearsRetryState ==
    ev.op = "enable_true"
        => /\ conn \in LiveTasks
           /\ rapid[conn] = 0
           /\ counters.tcp_reconnect_counter = 0
           /\ bstart = NoTime

\* the retry state of the device and of its loops
RetryState == <<rapid, counters.tcp_reconnect_counter, bstart, next_attempt, wake, nfail>>

\* C11: a cancellation is not a failure.  The step that delivers the cancellation to a loop
\* (in connect, handshake wait, streaming read or retry sleep) and every later step of that
\* loop change no rapid-retry count, no backoff-attempt count, no backoff epoch and schedule
\* no delay; the loop ends without sleeping again.  The disable call itself changes none of
\* them either.
C11_CancelIsNoFailure ==
    /\ [][ev'.op = "cancelled"
            => /\ UNCHANGED RetryState
               /\ \/ pc'[ev'.t] \in Terminal
                  \/ pc'[ev'.t] = "closing" /\ brk'[ev'.t]]_vars
    /\ [][\A t \in Tasks : brk[t] /\ pc'[t] # pc[t]
            => pc'[t] \in Terminal /\ UNCHANGED RetryState]_vars
    /\ [][ev'.op \in {"disable_call", "disable_return"} /\ ev' # ev
            => UNCHANGED <<rapid, counters, bstart, next_attempt, wake>>]_vars
    /\ [](\A t \in Tasks : brk[t] => pc[t] \in {"closing"} \cup Terminal)

\* an external disable has cancelled a loop that had failed before and was in a socket read;
\* the loop has closed its socket and ended
C11_Witness ==
    /\ ev.op = "loop_break"
    /\ ~enabled
    /\ rapid[ev.t] >= 1
    /\ pc[ev.t] = "done"

\* C12: when a call of enable(device,false) returns and the device is still disabled, no
\* Session Loop task of the device is live and no socket is open or closing, also when the
\* call overlapped another enable(device,false) or the loop's own disable.
C12_DisableReturnsAfterEnd ==
    phase = "running" /\ ev.op = "disable_return" /\ ~enabled
        => /\ LiveTasks = {}
           /\ \A t \in Tasks : writer[t] \in {"none", "closed"}

\* C13: when the give-up threshold fires, the loop's own enable(device,false) completes: the
\* device is disabled from the give-up step on, the task leaves the call by ending normally
\* (never with an exception), the state listeners are notified of the disabled state on the
\* way out, and under fair scheduling the task does end.
C13_SelfDisableCompletes ==
    /\ [](ev.op = "give_up" => ~enabled /\ pc[ev.t] \in {"self_stop", "done"})
    /\ [][\A t \in Tasks : pc[t] = "self_stop" /\ pc'[t] # "self_stop"
            => /\ pc'[t] = "done"
               /\ ev' = Event("self_stop_done", t, 1)
               /\ ~enabled'
               /\ state_seen' = FALSE]_vars
    /\ [](\A t \in Tasks : pc[t] # "failed")
    /\ \A t \in Tasks : (ev.op = "give_up" /\ ev.t = t) ~> (pc[t] = "done" /\ ~enabled)

\* the loop that gave up has returned from its own disable call and ended
C13_Witness ==
    /\ ev = Event("self_stop_done", 1, 1)
    /\ pc[1] = "done"
    /\ ~enabled
    /\ ~state_seen
    /\ next_attempt = NoTime
    /\ now - bstart > OVERALL_TIMEOUT_MINUTES * 60

\* C14: after the loop head has disabled the device because the gating signal did not permit,
\* a change of the tracker to "home" leads to the device enabled again with the backoff-attempt
\* count 0, no backoff epoch and a registered live loop; the step that enables it creates a
\* new loop task whose rapid-retry count is 0.
C14_GateReenables ==
    /\ (~enabled /\ ev.op = "tracker_change" /\ tracker_state = "home")
            ~> (/\ enabled
                /\ conn \in LiveTasks
                /\ rapid[conn] = 0
                /\ counters.tcp_reconnect_counter = 0
                /\ bstart = NoTime)
    /\ [][phase = "running" /\ ~enabled /\ enabled'
            => /\ ev'.op = "connect_enable"
               /\ nextTask' = nextTask + 1
               /\ conn' = nextTask'
               /\ pc'[conn'] = "start"
               /\ rapid'[conn'] = 0
               /\ state_seen']_vars
    /\ [][phase = "running" /\ enabled /\ ~enabled' => ev'.op = "gate_disable"]_vars

\* the tracker came home after a gating disable and the device has been enabled again
C14_Witness ==
    /\ ev.op = "connect_enable"
    /\ enabled
    /\ tracker_state = "home"
    /\ nextTask = 2
    /\ pc[2] = "start"
    /\ pc[1] = "done"

\* C15: between the start of the listeners and shutdown an enabled device has a registered
\* live loop: no loop task ends (by an exception while closing the socket, or by an exception
\* of a telemetry listener) leaving the device enabled with no loop and no retry pending.
C15_NoSilentEnd ==
    phase = "running" /\ enabled => conn \in LiveTasks

\* C16: no diagnostic counter ever decreases: login calls, device-list calls, connection
\* attempts and reconnect attempts of the device.
C16_CountersMonotone ==
    [][\A c \in GlobalCounters \cup DeviceCounters : counters'[c] >= counters[c]]_vars

\* C17: a global counter equals the events counted this session plus the restored value of
\* its first reseed call; the first reseed of a counter adds its value and marks the counter,
\* every later reseed of it changes no state of the client.
C17_GlobalReseedOnce ==
    /\ [](\A c \in GlobalCounters :
            counters[c] = counted[c] + (IF seed[c] = NoSeed THEN 0 ELSE seed[c]))
    /\ [][\A c \in GlobalCounters : ev'.op = SyncOp[c] /\ reseeds' # reseeds
            => IF seed[c] = NoSeed
               THEN /\ counters' = [counters EXCEPT ![c] = @ + ev'.d]
                    /\ synced' = synced \cup {c}
                    /\ UNCHANGED <<other, enabled, conn, bstart, next_attempt, tsk>>
               ELSE UNCHANGED <<mgr, synced, other, tsk>>]_vars

\* a second reseed of the login counter with another value has been skipped
C17_Witness ==
    /\ ev.op = SyncOp["api_login_calls"]
    /\ reseeds >= 2
    /\ seed["api_login_calls"] \notin {NoSeed, ev.d}
    /\ ev.d > 0
    /\ counters.api_login_calls = counted.api_login_calls + seed["api_login_calls"]

\* C18: every reseed of a per-device counter adds the restored value to that device's counter
\* and changes no other counter: not the same counter of another device, not the device's
\* other counter, no global counter, and not the set of synced global counters.
C18_DeviceReseedAdditive ==
    [][\A c \in DeviceCounters : ev'.op = SyncOp[c] /\ reseeds' # reseeds
        => /\ synced' = synced
           /\ IF ev'.t = 1
              THEN /\ counters' = [counters EXCEPT ![c] = @ + ev'.d]
                   /\ other' = other
              ELSE /\ other' = [other EXCEPT ![c] = @ + ev'.d]
                   /\ counters' = counters]_vars

\* the connection-attempt counter of the device has been reseeded twice, after an attempt
C18_Witness ==
    /\ ev = Event(SyncOp["tcp_connection_attempts"], 1, MaxRestored)
    /\ reseeds = 2
    /\ seeded = 2 * MaxRestored
    /\ counters.tcp_connection_attempts = seeded + 1

\* C19 as stated: once the record with zone-1 bytes 0x01 0x40 has been read, the subscriber
\* has received exactly one telemetry record and its zone_1 is 14.0 degrees (140 tenths).
C19_ZoneIs14 ==
    field = <<1, 64>> /\ stream = <<>>
        => Len(received) = 1 /\ received[1].zone_1 = 140

\* C19 amended: once the record with zone-1 bytes 0x01 0x40 has been read, however it was
\* split into reads, the subscriber has received exactly one telemetry record and its zone_1
\* is 16.4 degrees (164 tenths); before that it has received none.
C19_ZoneIs16_4 ==
    /\ field = <<1, 64>> /\ stream = <<>>
            => Len(received) = 1 /\ received[1].zone_1 = 164
    /\ stream # <<>> => received = <<>>
    /\ Len(received) <= 1

\* the record has been read to its last byte and dispatched
C19_Witness ==
    /\ field = <<1, 64>>
    /\ stream = <<>>
    /\ buffer = <<>>
    /\ Len(received) = 1
    /\ received[1].zone_1 = 164

\* the raw patterns the claim C20 lists: 0x9600, 0xFFFF, 0x0000, 0xFFEF, 0xFEFF
C20_Sentinels == {38400, 65535, 0, 65519, 65279}

\* C20: for every 2-byte field (b1, b2) the decoder yields no reading exactly when the raw
\* pattern 256*b1 + b2 is a sentinel or 100*b1 + b2 tenths lies outside [-500, 6000], and
\* yields 100*b1 + b2 tenths of a degree otherwise.
C20_TempDecode ==
    decoded # Undecoded
        => LET b1 == field[1]
               b2 == field[2]
               none == \/ 256 * b1 + b2 \in C20_Sentinels
                       \/ 100 * b1 + b2 < -500
                       \/ 100 * b1 + b2 > 6000
           IN decoded = IF none THEN NoReading ELSE 100 * b1 + b2

\* 0x3C 0x01 is no sentinel and decodes to 600.1 degrees: out of range, no reading
C20_Witness ==
    /\ field = <<60, 1>>
    /\ decoded = NoReading

\* C25: when the shutdown operation (async_stop_listeners) returns, no Session Loop task of the
\* device is live and no socket is open or closing.
C25_ShutdownLeavesNothing ==
    (ev.op = "stop_return" \/ (ev.op = "stop_listeners" /\ shut_wait = NoTask))
        => /\ LiveTasks = {}
           /\ \A t \in Tasks : writer[t] \in {"none", "closed"}

\* C26: a streaming session ended by the peer closing the connection or by an I/O error on
\* read is a failure of the retry policy: the step of the loop that follows the closing of
\* the socket (when the closing itself does not raise), with the device still enabled, counts
\* one failure and starts the delay of a tier (or gives up); it never goes straight to the
\* next connection attempt.
C26_StreamEndIsFailure ==
    [][\A t \in Tasks :
          /\ ev.op \in {"stream_closed", "stream_error"}
          /\ ev.t = t
          /\ enabled
          /\ ~must_cancel[t]
          /\ pc[t] = "closing"
          /\ pc'[t] \notin {"closing", "failed"}
          => /\ ev'.op \in {"rapid_sleep", "backoff_sleep", "give_up"}
             /\ nfail' = nfail + 1]_vars

\* C27: a failure is handled by exactly one tier: no step increments both the rapid retry
\* count and the backoff attempt counter, and the rapid retry count is 0 once the loop is in
\* the backoff tier.
C27_OneTierPerFailure ==
    [][\A t \in Tasks :
          /\ ~(rapid'[t] > rapid[t]
               /\ counters'.tcp_reconnect_counter > counters.tcp_reconnect_counter)
          /\ (ev'.op = "backoff_sleep" /\ ev'.t = t => rapid'[t] = 0)]_vars

\* C28: a transient failure never ends the loop: a task that closes its socket after a failed
\* attempt, with no cancellation requested and the device enabled, goes on to the delay of a
\* tier or to the give-up, never to its end.
C28_FailureNeverEndsLoop ==
    [][\A t \in Tasks :
          /\ ev.op \in {"handshake_fail", "handshake_timeout"}
          /\ ev.t = t
          /\ enabled
          /\ ~must_cancel[t]
          /\ pc[t] = "closing"
          /\ pc'[t] # "closing"
          => pc'[t] \in {"rapid_sleep", "backoff_sleep", "self_stop"}]_vars

\* C21: the low-gas flag of a decoded record is set exactly when the gas weight the record
\* reports (the big-endian value of its two gas weight bytes, in grams) is below 2200.
C21_GasLowBelow2200 ==
    received # <<>> =>
        LET grams == 256 * field[1] + field[2]
        IN /\ received[1].gas_weight = grams
           /\ received[1].gas_low = (grams < 2200)

\* a record reporting exactly 2200 g was decoded and its flag is off
C21_Witness ==
    /\ field = <<8, 152>>
    /\ received # <<>>
    /\ received[1].gas_weight = 2200
    /\ ~received[1].gas_low

\* the whole stream of the connection, and the number of its bytes the reads have returned
SentBytes == Flatten(parts)
Consumed == Len(SentBytes) - Len(stream)

\* the offsets at which the records of the stream end, in order
RECURSIVE RecordEnds(_, _)
RecordEnds(ps, at) ==
    IF ps = <<>> THEN <<>>
    ELSE LET to == at + Len(BytesOf(Head(ps)))
         IN (IF Head(ps).k = "rec" THEN <<to>> ELSE <<>>) \o RecordEnds(Tail(ps), to)

\* the zone-1 fields of the records of the stream, in order
SentFields == SelectSeq(parts, LAMBDA q : q.k = "rec")

\* the records wholly returned by the reads so far
Complete == {i \in 1..Len(SentFields) : RecordEnds(parts, 0)[i] <= Consumed}

\* zone 1 of the sample records, in tenths of a degree
C22_Zone(z) ==
    CASE z = <<1, 64>> -> 164
      [] z = <<60, 0>> -> 6000
      [] OTHER -> NoReading

\* C22: however the stream is split into reads, the subscriber has received exactly the
\* records wholly returned so far, each once, in the order the peer sent them.
C22_InOrderOnce ==
    /\ Len(received) = Cardinality(Complete)
    /\ \A i \in 1..Len(received) : received[i].zone_1 = C22_Zone(SentFields[i].b)

\* two different records arrived in one stream and both were dispatched, the first one first
C22_Witness ==
    /\ parts = <<Rec(<<60, 0>>), Rec(<<1, 64>>)>>
    /\ stream = <<>>
    /\ Len(received) = 2
    /\ received[1].zone_1 = 6000
    /\ received[2].zone_1 = 164

\* C29: a record is extracted only once the header and the PACKET_SIZE bytes from it are
\* buffered; the extraction removes the bytes before the header and the record and keeps the
\* bytes after it in order; a read that completes no record only appends to the buffer.
C29_Framing ==
    /\ [](LET ends == RecordEnds(parts, 0)
              cut == IF Complete = {} THEN 0 ELSE ends[Cardinality(Complete)]
          IN buffer = SubSeq(SentBytes, cut + 1, Consumed))
    /\ [][LET chunk == SubSeq(stream, 1, Len(stream) - Len(stream'))
          IN IF Len(received') = Len(received)
             THEN buffer' = buffer \o chunk
             ELSE \E lead \in 0..Len(buffer \o chunk) :
                    /\ Len(buffer \o chunk) >= lead + PACKET_SIZE
                    /\ SubSeq(buffer \o chunk, lead + 1, lead + 2) = PACKET_HEADER
                    /\ \E m \in 1..Len(buffer \o chunk) :
                          buffer' = SubSeq(buffer \o chunk, m + 1, Len(buffer \o chunk))]_vars

\* bytes ahead of the first header were dropped with the record, the bytes after it are kept
C29_Witness ==
    /\ parts = <<Junk(<<7, 163>>), Rec(<<1, 64>>), Junk(<<58, 9, 163>>), Rec(<<60, 0>>)>>
    /\ Len(received) = 1
    /\ buffer = <<58, 9, 163>>

\* C23: a listener receives every dispatch made for its registry and serial number from its
\* subscription until its unsubscribe handle is called and none afterwards, whatever the other
\* listeners of the same or of another serial number or registry do.
C23_Unsubscribe ==
    \A l \in Listeners :
        IF handle[l] = NoHandle THEN heard[l] = 0
        ELSE LET h == handle[l]
             IN heard[l] = (IF h.called THEN h.stop ELSE ndisp[h.k][h.sn]) - h.base

\* listener 1 has unsubscribed and missed a dispatch that listener 2 of the same registry and
\* serial number, and listener 3 of another serial number, received
C23_Witness ==
    /\ handle[1] # NoHandle /\ handle[2] # NoHandle /\ handle[3] # NoHandle
    /\ handle[1].called /\ ~handle[2].called /\ ~handle[3].called
    /\ handle[1].k = handle[2].k /\ handle[1].sn = handle[2].sn
    /\ handle[3].sn # handle[1].sn
    /\ heard[1] = 0 /\ heard[2] = 1 /\ heard[3] = 1

\* C24: when the authentication fails during discovery, the discovery returns false (the setup
\* ends), the device list is left as it was (empty), and no enabled flag and no per-device
\* counter has been created for any device.
C24_AuthFailureLeavesNothing ==
    ev.op = "discover_rejected" =>
        /\ phase = "setup_failed"
        /\ grills = {}
        /\ entries = {}
        /\ ~enabled
        /\ counters.tcp_connection_attempts = 0
        /\ counters.tcp_reconnect_counter = 0
        /\ conn = NoTask

\* the device-list request was rejected as unauthorized in both rounds: two logins and two
\* requests were counted and the discovery failed
C24_Witness ==
    /\ ev.op = "discover_rejected"
    /\ ev.d = 4
    /\ phase = "setup_failed"
    /\ counters.api_login_calls = 2
    /\ counters.api_grills_calls = 2

\* the sentinel patterns 9600, ffff, 0000, ffef, feff as the two bytes of a field
C31_SentinelFields == {<<150, 0>>, <<255, 255>>, <<0, 0>>, <<255, 239>>, <<254, 255>>}

\* C31: whatever the probe-1 field of a record holds, the record is decoded and every other
\* field has the value it has without it; a sentinel pattern in the probe-1 field leaves
\* exactly probe 1 without reading.
C31_FieldsIndependent ==
    received # <<>> =>
        /\ received[1] # NoRecord
        /\ received[1].zone_1 = 164 /\ received[1].zone_2 = 232
        /\ received[1].zone_3 = 320 /\ received[1].zone_4 = 430
        /\ received[1].probe_2 = 70 /\ received[1].probe_3 = 80 /\ received[1].probe_4 = 90
        /\ received[1].gas_weight = 2199 /\ received[1].gas_low
        /\ received[1].lid_open /\ received[1].light_on
        /\ received[1].gas_level = 55
        /\ (field \in C31_SentinelFields => received[1].probe_1 = NoReading)
        /\ (field = <<0, 60>> => received[1].probe_1 = 60)

\* a record with the pattern ffff in the probe-1 field was decoded: probe 1 has no reading
C31_Witness ==
    /\ field = <<255, 255>>
    /\ received # <<>>
    /\ received[1] # NoRecord
    /\ received[1].probe_1 = NoReading
    /\ received[1].probe_2 = 70

\* C32: within one Session Loop a connection attempt that is not the first of the task
\* follows a retry sleep: a task starts connecting only from its start or from a sleep of at
\* least RAPID_RETRY_DELAY_SECONDS that has run out.
C32_SleepBetweenAttempts ==
    [][\A t \in Tasks :
          pc[t] # "connecting" /\ pc'[t] = "connecting"
              => \/ pc[t] = "start"
                 \/ /\ pc[t] \in {"rapid_sleep", "backoff_sleep"}
                    /\ now' >= wake[t]]_vars

\* the sleeps of the retry policy
C33_Asleep(t) == pc[t] \in {"rapid_sleep", "backoff_sleep"}

\* C33: enable(device,true) called while the Session Loop of the device is asleep in a retry
\* or backoff delay creates no task and leaves the sleep as it is, while the backoff attempt
\* count and the backoff epoch are cleared; a sleeping loop makes its next attempt only once
\* the time scheduled for it has come.
C33_EnableKeepsSleep ==
    /\ [][ev'.op = "enable_true" /\ ev' # ev /\ conn # NoTask /\ C33_Asleep(conn)
            => /\ UNCHANGED <<nextTask, conn, pc, wake, rapid, now>>
               /\ counters'.tcp_reconnect_counter = 0
               /\ bstart' = NoTime]_vars
    /\ [][\A t \in Tasks : C33_Asleep(t) /\ pc'[t] # pc[t]
            => /\ now' >= wake[t]
               /\ wake'[t] = wake[t]]_vars

\* the switch was turned on during a backoff sleep: the loop still sleeps until the time
\* scheduled, with the backoff state cleared
C33_Witness ==
    /\ ev.op = "enable_true"
    /\ conn # NoTask
    /\ pc[conn] = "backoff_sleep"
    /\ wake[conn] = now + INITIAL_RETRY_DELAY_SECONDS
    /\ bstart = NoTime
    /\ counters.tcp_reconnect_counter = 0
    /\ nextTask = 1

\* the device is off and its last Session Loop was cancelled by the switch
C34_SwitchedOff == ~enabled /\ nextTask > 0 /\ pc[nextTask] = "cancelled"

\* C34: a device turned off by the switch is turned on again by the gating signal: once the
\* tracker reports home the device becomes enabled with a new live Session Loop, and the
\* connect_if_needed call of the handler that finds it off enables it and creates the task.
C34_GateOverridesSwitch ==
    /\ (C34_SwitchedOff /\ ev.op = "tracker_change" /\ tracker_state = "home")
            ~> (enabled /\ conn \in LiveTasks)
    /\ [][C34_SwitchedOff /\ pending' < pending
            => /\ enabled'
               /\ nextTask' = nextTask + 1
               /\ conn' = nextTask'
               /\ pc'[conn'] = "start"
               /\ state_seen']_vars

\* the switch cancelled the first loop, the tracker came home and a second loop was created
C34_Witness ==
    /\ ev.op = "connect_enable"
    /\ enabled
    /\ tracker_state = "home"
    /\ nextTask = 2
    /\ pc[1] = "cancelled"
    /\ pc[2] = "start"
    /\ conn = 2

\* the loop is at a place from which its next step may begin a connection attempt
C35_AtLoopHead(t) == pc[t] \in {"start", "rapid_sleep", "backoff_sleep", "closing"}

\* C35: the gating signal is read only where the loop begins a connection attempt: a change
\* of the tracker to a state other than home changes neither the enabled flag nor any task
\* or socket, a device is disabled by gating only by a step of the loop head, and a session
\* that receives data is closed by the loop only when the device is no longer enabled.
C35_GateOnlyAtAttempt ==
    /\ [][tracker_state' # tracker_state /\ tracker_state' # "home"
            => UNCHANGED <<enabled, conn, tsk, wts, counters, pending>>]_vars
    /\ [][ev'.op = "gate_disable" /\ ev' # ev => C35_AtLoopHead(ev'.t)]_vars
    /\ [][\A t \in Tasks :
            /\ pc[t] \in {"handshake", "streaming"}
            /\ pc'[t] = "closing"
            /\ ev'.op \in {"handshake_ok", "stream_data"}
            => ~enabled]_vars

\* the tracker left home while the session was streaming: device enabled, socket open
C35_Witness ==
    /\ ev.op = "tracker_change"
    /\ tracker_entity
    /\ tracker_state = "not_home"
    /\ enabled
    /\ conn # NoTask
    /\ pc[conn] = "streaming"
    /\ writer[conn] = "open"

\* C36: between the start of the listeners and shutdown (enable calls run without suspending,
\* so none is in progress in any state) a device that reports enabled has a live Session Loop
\* task: connecting, handshaking, streaming, sleeping before a retry or about to do so.
C36_EnabledHasLoop ==
    phase = "running" /\ enabled => LiveTasks # {}

\* C37: when every connection completes the handshake and is then closed by the peer, the
\* device stays enabled and in the rapid tier for ever: every delay is the rapid delay with a
\* rapid retry count of 1, no backoff epoch is ever started and the loop never ends.
C37_FlappingStaysRapid ==
    /\ phase = "running" =>
          /\ enabled
          /\ bstart = NoTime
          /\ next_attempt = NoTime
          /\ counters.tcp_reconnect_counter = 0
          /\ \A t \in Tasks : rapid[t] <= 1 /\ pc[t] \notin {"backoff_sleep", "self_stop"} \cup Terminal
    /\ ev.op = "rapid_sleep" =>
          /\ ev.d = RAPID_RETRY_DELAY_SECONDS
          /\ rapid[ev.t] = 1
          /\ wake[ev.t] = now + RAPID_RETRY_DELAY_SECONDS

\* the tenth session in a row was closed by the peer and the loop sleeps the rapid delay again
C37_Witness ==
    /\ ev.op = "rapid_sleep"
    /\ counters.tcp_connection_attempts = 10
    /\ now = 18
    /\ rapid[1] = 1
    /\ bstart = NoTime
    /\ enabled

\* C38: the backoff delays of one backoff epoch are each one of 30, 60, 120, 240 and 300
\* seconds and never decrease, whatever enable and reseed calls come in between.
C38_EpochDelays ==
    /\ \A i \in 1..Len(delays) : delays[i] \in {30, 60, 120, 240, 300}
    /\ \A i, j \in 1..Len(delays) : i <= j => delays[i] <= delays[j]

\* an epoch in which a reseed of the reconnect counter came between two failures: the delays
\* skip a step and reach the cap
C38_Witness ==
    /\ ev.op = "backoff_sleep"
    /\ Len(delays) = 4
    /\ delays[1] = 30
    /\ delays[2] = 120
    /\ delays[4] = 300
    /\ reseeds > 0

\* C39: the delay after the k-th failure of a backoff epoch (k = 0, 1, 2, ...) is
\* min(300, 30 * 2^k) seconds, whether or not the reconnect counter of the device is reseeded.
C39_ReseedKeepsSchedule ==
    \A i \in 1..Len(delays) : delays[i] = Min(300, 30 * Pow2(i - 1))

=============================================================================
